---- MODULE Spec2Model ----
(***************************************************************************)
(* Verification model of AI-Guard: the tokenization engine                 *)
(* (GuardService.generate_tokens / unmask, TokenManager), the detection    *)
(* pipeline (PIIDetectorFrench) and the configuration store                *)
(* (DatabaseManager, DynamicConfigLoader).                                 *)
(*                                                                         *)
(* Strings are sequences of symbols.  A symbol is a record                 *)
(*   [t |-> tag, h |-> [k |-> key, d |-> data]]                            *)
(* a plain character c has the empty tag and k = c; a token literal       *)
(* "<type:TOKEN_xxxxxxxxxxxxxxxx>" has tag "<type>" and the digest         *)
(* generate_token returned.  A token literal contains one "<" (first) and  *)
(* one ">" (last), so two occurrences never overlap and str.replace on a   *)
(* token acts symbol by symbol.                                            *)
(***************************************************************************)
EXTENDS Integers, Sequences, FiniteSets, TLC

VARIABLES
    \* ---- tokenization engine (guard_service.py) ----
    text,          \* the request text
    cands,         \* the entity list handed to generate_tokens, in arrival order
    pc,            \* position of the request
    selected,      \* generate_tokens: the list that is tokenized
    masked_text,   \* generate_tokens: first result
    token_map,     \* generate_tokens: second result, a dict in insertion order
    unmasked,      \* result of unmask(masked_text, token_map)
    calls,         \* number of generate_tokens calls the service has served
    prev_masked,   \* results of the previous call on the same input
    prev_map,
    issued,        \* every <<field name, original segment, token>> issued so far
    \* ---- configuration store (db_manager.py) ----
    guard_types,     \* table guard_types: rows [id, name, is_active]
    pii_fields,      \* table pii_fields
    regex_patterns,  \* table regex_patterns
    cfg_ops,         \* number of configuration calls served
    last_call,       \* the last configuration call and what it returned
    prev_call,       \* the call before it
    \* ---- detection pipeline (pii_detector_french.py) ----
    guard_type,        \* the guard type of the request
    presidio,          \* self.presidio_analyzer is set (Presidio was initialised)
    answers,           \* what the external detectors return for the text
    regex_entities,    \* detect: result of _detect_with_regex
    ner_entities,      \* detect: result of _detect_with_ner_for_configured_fields
    ner_calls,         \* detect: the analyze calls made
    other_part,        \* detect: the entities handed to _merge_entities
    merged_other,      \* detect: result of _merge_entities
    final_entities,    \* detect: the list returned
    \* ---- configuration API and pattern cache (config_api.py, dynamic_config_loader.py) ----
    request,           \* the body of the last configuration request
    response,          \* what the route answered
    compiled_cache,    \* DynamicConfigLoader._compiled_patterns_cache: <<name, pattern>> pairs
    reload_pc,         \* position of a thread inside _load_patterns_cache
    reload_rows,       \* _load_patterns_cache: the rows still to compile
    old_cache,         \* the cache when the running reload began
    observed,          \* what a concurrent reader saw in the cache
    \* ---- one process() call against concurrent configuration writes ----
    det_pc,            \* the next read of the field definitions process() makes
    reads,             \* the field lists the reads made so far returned
    failed,            \* the detectors that raise when they are called
    llm_calls          \* the texts process() has sent to the LLM collaborator

maskVars == <<text, cands, pc, selected, masked_text, token_map, unmasked,
              calls, prev_masked, prev_map, issued>>

cfgVars == <<guard_types, pii_fields, regex_patterns, cfg_ops, last_call, prev_call>>

detVars == <<guard_type, presidio, answers, regex_entities, ner_entities,
             ner_calls, other_part, merged_other, final_entities>>

apiVars == <<request, response, compiled_cache, reload_pc, reload_rows, old_cache, observed>>

runVars == <<det_pc, reads, failed, llm_calls>>

nonMaskVars == <<cfgVars, detVars, apiVars, runVars>>
nonCfgVars == <<maskVars, detVars, apiVars, runVars>>

vars == <<maskVars, cfgVars, detVars, apiVars, runVars>>

-----------------------------------------------------------------------------
\* Bounds of the model
MaxTextLen == 2
MaxCands == 3

-----------------------------------------------------------------------------
\* Generic helpers

Min(a, b) == IF a < b THEN a ELSE b
Max(a, b) == IF a > b THEN a ELSE b

\* Python s[a:b] on a 0-based string (negative indices count from the end,
\* out-of-range indices are clamped, an empty range gives "")
PySlice(s, a, b) ==
    LET n  == Len(s)
        lo == IF a < 0 THEN Max(n + a, 0) ELSE Min(a, n)
        hi == IF b < 0 THEN Max(n + b, 0) ELSE Min(b, n)
    IN  IF lo >= hi THEN <<>> ELSE SubSeq(s, lo + 1, hi)

\* tuple comparison, as Python compares sort keys
RECURSIVE TupleLess(_, _)
TupleLess(a, b) ==
    IF a = <<>> \/ b = <<>> THEN a = <<>> /\ b # <<>>
    ELSE IF Head(a) # Head(b) THEN Head(a) < Head(b)
    ELSE TupleLess(Tail(a), Tail(b))

\* list.sort(key=...) on <<key, item>> pairs: stable, ascending by key
RECURSIVE InsertPair(_, _)
InsertPair(p, s) ==
    IF s = <<>> THEN <<p>>
    ELSE IF TupleLess(p[1], Head(s)[1]) THEN <<p>> \o s
    ELSE <<Head(s)>> \o InsertPair(p, Tail(s))

RECURSIVE SortPairs(_)
SortPairs(ps) ==
    IF ps = <<>> THEN <<>>
    ELSE InsertPair(ps[Len(ps)], SortPairs(SubSeq(ps, 1, Len(ps) - 1)))

Items(ps) == [i \in 1..Len(ps) |-> ps[i][2]]

Range(s) == {s[i] : i \in 1..Len(s)}

-----------------------------------------------------------------------------
\* Symbols and strings

Chr(c) == [t |-> "", h |-> [k |-> c, d |-> <<>>]]

\* GuardService.__init__ : the process-wide secret
SecretKey == "ia_guards_secret_2025"

\* TokenManager.generate_token(data): "TOKEN_" + sha256(key + "_" + data)[:16].
\* The digest is modelled as the pair it is computed from (collision-free).
generate_token_counter(key, data) == [k |-> key, d |-> data \o <<Chr(ToString(calls))>>]
generate_token(key, data) == [k |-> key, d |-> data]

\* f"<{ent['type']}:{token} >".replace(' >','>')
TokenLiteral(type, digest) == [t |-> type, h |-> digest]

-----------------------------------------------------------------------------
\* GuardService.generate_tokens

\* An entity dict.  keys is FALSE for a dict that lacks one of
\* 'start', 'end', 'text', 'type'.
Ent(s, e, txt, ty, src, conf, keys) ==
    [start |-> s, end |-> e, text |-> txt, type |-> ty, source |-> src,
     confidence |-> conf, keys |-> keys]

\* step 1: the filter that builds `cleaned`
IsValidEntity(e) == e.keys /\ e.start < e.end
RECURSIVE cleaned(_)
cleaned(entities) ==
    IF entities = <<>> THEN <<>>
    ELSE (IF IsValidEntity(Head(entities)) THEN <<Head(entities)>> ELSE <<>>)
         \o cleaned(Tail(entities))

\* score(ent) = (base, conf, length); confidences are in hundredths
RegexBase == 1000
score_no_regex_priority(ent) == <<0, ent.confidence, ent.end - ent.start>>
score(ent) ==
    <<IF ent.source = "regex_db" THEN RegexBase ELSE 0,
      ent.confidence,
      ent.end - ent.start>>

\* key=lambda e: (-score(e)[0], -score(e)[1], -score(e)[2], e['start'])
SortKey(ent) == <<0 - score(ent)[1], 0 - score(ent)[2], 0 - score(ent)[3], ent.start>>

\* the list left in arrival order
SortByScore_arrival_order(s) == s
\* cleaned.sort(key=...) and selected.sort(key=lambda e: e['start'])
SortByScore(s) == Items(SortPairs([i \in 1..Len(s) |-> <<SortKey(s[i]), s[i]>>]))
SortByStart(s) == Items(SortPairs([i \in 1..Len(s) |-> <<<<s[i].start>>, s[i]>>]))

\* not (ent['end'] <= s or ent['start'] >= e)
overlaps_start_only(ent, s, e) == s <= ent.start /\ ent.start < e
overlaps(ent, s, e) == ~(ent.end <= s \/ ent.start >= e)

\* the loop over `cleaned` that fills `occupied` and `selected`
RECURSIVE SelectGreedy(_, _)
SelectGreedy(sorted, sel) ==
    IF sorted = <<>> THEN sel
    ELSE LET ent == Head(sorted)
             overlap == \E i \in 1..Len(sel) : overlaps(ent, sel[i].start, sel[i].end)
         IN  SelectGreedy(Tail(sorted), IF overlap THEN sel ELSE Append(sel, ent))

select(entities) == SortByStart(SelectGreedy(SortByScore(cleaned(entities)), <<>>))

\* tokens[token] = original_segment on a dict kept in insertion order
DictSet(m, key, val) ==
    IF \E i \in 1..Len(m) : m[i][1] = key
    THEN [i \in 1..Len(m) |-> IF m[i][1] = key THEN <<key, val>> ELSE m[i]]
    ELSE Append(m, <<key, val>>)

\* the reconstruction loop; returns [out, tokens]
RECURSIVE BuildParts(_, _, _, _, _, _)
BuildParts(key, txt, sel, cursor, out, tokens) ==
    IF sel = <<>>
    THEN [out    |-> IF cursor < Len(txt) THEN out \o PySlice(txt, cursor, Len(txt)) ELSE out,
          tokens |-> tokens]
    ELSE LET ent == Head(sel)
             gap == IF ent.start > cursor THEN PySlice(txt, cursor, ent.start) ELSE <<>>
             original_segment == PySlice(txt, ent.start, ent.end)
             token == TokenLiteral(ent.type, generate_token(key, original_segment))
         IN  BuildParts(key, txt, Tail(sel), ent.end, out \o gap \o <<token>>,
                        DictSet(tokens, token, original_segment))

generate_tokens(key, txt, entities) ==
    IF cleaned(entities) = <<>>
    THEN [masked_text |-> txt, tokens |-> <<>>, selected |-> <<>>]
    ELSE LET sel == select(entities)
             r   == BuildParts(key, txt, sel, 0, <<>>, <<>>)
         IN  [masked_text |-> r.out, tokens |-> r.tokens, selected |-> sel]

\* str.replace(token, original): every occurrence of the token literal
RECURSIVE Replace(_, _, _)
Replace(txt, token, original) ==
    IF txt = <<>> THEN <<>>
    ELSE (IF Head(txt) = token THEN original ELSE <<Head(txt)>>)
         \o Replace(Tail(txt), token, original)

\* GuardService.unmask: for token, original in tokens.items(): text = text.replace(...)
RECURSIVE unmask(_, _)
unmask(txt, tokens) ==
    IF tokens = <<>> THEN txt
    ELSE unmask(Replace(txt, Head(tokens)[1], Head(tokens)[2]), Tail(tokens))

-----------------------------------------------------------------------------
\* The tokenization engine as a state machine: one request is collected
\* (the detectors' entities arrive one by one), masked, unmasked, and masked
\* a second time by the same service.

\* Inputs: the characters of a text.  Besides plain characters a text may
\* hold, at one place, the literal of the token the service issues for the
\* segment "a" (a masked text pasted back into a request).
LiteralOfA == TokenLiteral("name", [k |-> SecretKey, d |-> <<Chr("a")>>])
Alphabet == {Chr("a"), LiteralOfA}
Texts ==
    {t \in UNION {[1..n -> Alphabet] : n \in 0..MaxTextLen} :
        \A i, j \in 1..Len(t) : (t[i] = LiteralOfA /\ t[j] = LiteralOfA) => i = j}

\* Inputs: what the detectors report: a configured-regex hit of confidence 0.50
\* and a model hit of confidence 0.99 (confidences in hundredths); the entity
\* type is the field name of the field that fired
DetectorHits == {<<"regex_db", 50>>, <<"ner_configured_fr", 99>>}
FieldOfSource(src) == IF src = "regex_db" THEN "email" ELSE "name"

\* Inputs: the entities a detector can report on a text: every span inside
\* the text, and two entities the filter of generate_tokens rejects (an empty
\* span, a dict without the required keys)
SpansOf(txt) == {sp \in (0..Len(txt)) \X (0..Len(txt)) : sp[1] < sp[2]}
CandidatePool(txt) ==
    {Ent(sp[1], sp[2], PySlice(txt, sp[1], sp[2]), FieldOfSource(hit[1]), hit[1], hit[2], TRUE) :
        sp \in SpansOf(txt), hit \in DetectorHits}
    \cup {Ent(1, 1, <<>>, "email", "regex_db", 50, TRUE),
          Ent(0, 1, <<>>, "name", "ner_configured_fr", 99, FALSE)}

NoResult == <<>>

\* no configuration call has been made
NoCall == [op |-> "", guard |-> "", field |-> "", status |-> "", id |-> 0, fields |-> <<>>]

\* the configuration store is left alone
CfgIdle ==
    /\ guard_types = {}
    /\ pii_fields = {}
    /\ regex_patterns = {}
    /\ cfg_ops = 0
    /\ last_call = NoCall
    /\ prev_call = NoCall

\* the detection pipeline is left alone
DetIdle ==
    /\ guard_type = ""
    /\ presidio = FALSE
    /\ answers = {}
    /\ regex_entities = <<>>
    /\ ner_entities = <<>>
    /\ ner_calls = {}
    /\ other_part = <<>>
    /\ merged_other = <<>>
    /\ final_entities = <<>>

\* no configuration request is being served, no reload is running
NoRequest == [op |-> ""]
ApiIdle ==
    /\ request = NoRequest
    /\ response = NoRequest
    /\ compiled_cache = {}
    /\ reload_pc = "idle"
    /\ reload_rows = <<>>
    /\ old_cache = {}
    /\ observed = {}

\* no process() call is running and every detector works
RunIdle ==
    /\ det_pc = "idle"
    /\ reads = <<>>
    /\ failed = {}
    /\ llm_calls = <<>>

\* the tokenization engine has produced nothing
MaskResultsIdle ==
    /\ calls = 0
    /\ cands = <<>>
    /\ selected = <<>>
    /\ masked_text = NoResult
    /\ token_map = NoResult
    /\ unmasked = NoResult
    /\ prev_masked = NoResult
    /\ prev_map = NoResult
    /\ issued = {}

\* the tokenization engine is left alone
MaskIdle ==
    /\ calls = 0
    /\ text = <<>>
    /\ cands = <<>>
    /\ pc = "idle"
    /\ selected = <<>>
    /\ masked_text = NoResult
    /\ token_map = NoResult
    /\ unmasked = NoResult
    /\ prev_masked = NoResult
    /\ prev_map = NoResult
    /\ issued = {}

InitMask ==
    /\ CfgIdle
    /\ DetIdle
    /\ ApiIdle
    /\ RunIdle
    /\ calls = 0
    /\ text \in Texts
    /\ cands = <<>>
    /\ pc = "collect"
    /\ selected = <<>>
    /\ masked_text = NoResult
    /\ token_map = NoResult
    /\ unmasked = NoResult
    /\ prev_masked = NoResult
    /\ prev_map = NoResult
    /\ issued = {}

\* a detector result is appended to the entity list
AddCandidate ==
    /\ pc = "collect"
    /\ Len(cands) < MaxCands
    /\ \E e \in CandidatePool(text) : cands' = Append(cands, e)
    /\ UNCHANGED <<text, pc, selected, masked_text, token_map, unmasked,
                   calls, prev_masked, prev_map, issued>>
    /\ UNCHANGED nonMaskVars

\* what a call hands out: the field name written in each token literal, the
\* original segment it stands for, and the token
IssuedBy(tokens) == {<<tokens[j][1].t, tokens[j][2], tokens[j][1]>> : j \in 1..Len(tokens)}

\* masked_text, tokens = self.generate_tokens(text, entities)
GenerateTokens ==
    /\ pc = "collect"
    /\ LET r == generate_tokens(SecretKey, text, cands)
       IN  /\ selected' = r.selected
           /\ masked_text' = r.masked_text
           /\ token_map' = r.tokens
           /\ issued' = issued \cup IssuedBy(r.tokens)
    /\ calls' = calls + 1
    /\ pc' = "masked"
    /\ UNCHANGED <<text, cands, unmasked, prev_masked, prev_map>>
    /\ UNCHANGED nonMaskVars

\* self.unmask(masked_text, tokens)
Unmask ==
    /\ pc = "masked"
    /\ unmasked' = unmask(masked_text, token_map)
    /\ pc' = "unmasked"
    /\ UNCHANGED <<text, cands, selected, masked_text, token_map,
                   calls, prev_masked, prev_map, issued>>
    /\ UNCHANGED nonMaskVars

\* the same service masks the same (text, entities) again
GenerateTokensAgain ==
    /\ pc = "unmasked"
    /\ prev_masked' = masked_text
    /\ prev_map' = token_map
    /\ LET r == generate_tokens(SecretKey, text, cands)
       IN  /\ selected' = r.selected
           /\ masked_text' = r.masked_text
           /\ token_map' = r.tokens
           /\ issued' = issued \cup IssuedBy(r.tokens)
    /\ calls' = calls + 1
    /\ pc' = "remasked"
    /\ UNCHANGED <<text, cands, unmasked>>
    /\ UNCHANGED nonMaskVars

NextMask == AddCandidate \/ GenerateTokens \/ Unmask \/ GenerateTokensAgain

SpecMask == InitMask /\ [][NextMask]_vars

-----------------------------------------------------------------------------
\* Claims on the tokenization engine (checked under SpecMask)

Masked == pc \in {"masked", "unmasked", "remasked"}
Intersect(a, b) == a.start < b.end /\ b.start < a.end
IsRegex(e) == e.source = "regex_db"

\* C1 (as claimed): round trip -- unmask(generate_tokens(t, entities)) returns
\* exactly t, for every text t and every entity list produced for it.
C1_RoundTrip == pc \in {"unmasked", "remasked"} => unmasked = text

\* C1, the part that holds: the round trip succeeds for every text in which
\* none of the tokens issued for it occurs literally.
C1_RoundTripWithoutLiterals ==
    (/\ pc \in {"unmasked", "remasked"}
     /\ \A j \in 1..Len(token_map) : token_map[j][1] \notin Range(text))
    => unmasked = text

\* a text holding the same segment twice was masked with two
\* entities (one token) and restored.
C1_Witness ==
    /\ pc = "unmasked"
    /\ Len(selected) = 2
    /\ Len(token_map) = 1
    /\ \A j \in 1..Len(token_map) : token_map[j][1] \notin Range(text)
    /\ masked_text # text
    /\ unmasked = text

\* C2: the list generate_tokens tokenizes (`selected`) is sorted ascending by
\* start and its half-open [start,end) intervals are pairwise disjoint, for any
\* candidate list (overlapping, duplicated, invalid candidates included).
C2_Disjointness ==
    Masked =>
        /\ \A i, j \in 1..Len(selected) : i < j => selected[i].start <= selected[j].start
        /\ \A i, j \in 1..Len(selected) : i # j => ~Intersect(selected[i], selected[j])
        /\ \A i \in 1..Len(selected) : selected[i].start < selected[i].end

\* C2 witness: of three candidates two overlap; one was dropped and two
\* disjoint ones were tokenized.
C2_Witness ==
    /\ pc = "masked"
    /\ Len(cands) = 3
    /\ Len(selected) = 2
    /\ \E i, j \in 1..Len(cands) :
          i # j /\ IsValidEntity(cands[i]) /\ IsValidEntity(cands[j])
          /\ Intersect(cands[i], cands[j])

\* the overlapping (regex, model) pairs of valid candidates
RegexModelPairs ==
    {p \in (1..Len(cands)) \X (1..Len(cands)) :
        /\ IsValidEntity(cands[p[1]]) /\ IsValidEntity(cands[p[2]])
        /\ IsRegex(cands[p[1]]) /\ ~IsRegex(cands[p[2]])
        /\ Intersect(cands[p[1]], cands[p[2]])}

\* C3 (as claimed): of two overlapping candidates, one regex-sourced and one
\* model-sourced, the regex-sourced one is always selected and the other dropped.
C3_RegexAlwaysSelected ==
    Masked =>
        \A p \in RegexModelPairs :
            /\ cands[p[1]] \in Range(selected)
            /\ cands[p[2]] \notin Range(selected)

\* C3 (amended): of two overlapping candidates, one regex-sourced and one
\* model-sourced, the two are never both selected, and the regex-sourced one is
\* selected unless it overlaps a selected regex-sourced candidate; a
\* model-sourced candidate never displaces it, whatever the confidences and
\* span lengths.
C3_RegexPriority ==
    Masked =>
        \A p \in RegexModelPairs :
            /\ cands[p[1]] \in Range(selected) => cands[p[2]] \notin Range(selected)
            /\ cands[p[1]] \notin Range(selected) =>
                  \E k \in 1..Len(selected) :
                      IsRegex(selected[k]) /\ Intersect(selected[k], cands[p[1]])

\* C3 witness: a regex candidate of confidence 0.50 overlaps a model candidate
\* of confidence 0.99 that is longer, and the regex one is tokenized.
C3_Witness ==
    /\ pc = "masked"
    /\ \E p \in RegexModelPairs :
          /\ cands[p[1]].confidence = 50 /\ cands[p[2]].confidence = 99
          /\ cands[p[2]].end - cands[p[2]].start > cands[p[1]].end - cands[p[1]].start
          /\ cands[p[1]] \in Range(selected)
          /\ cands[p[2]] \notin Range(selected)

-----------------------------------------------------------------------------
\* The configuration store (db_manager.py, schema of init_database.py)

MaxConfigOps == 6

\* Python None / SQL NULL; the code only tests these columns for truth
None == ""

GuardNames == {"TypeA", "TypeB"}

\* ORDER BY pf.field_name
FieldNameOrder == <<"cvv", "email", "firstname", "id_card", "name", "passport", "phone">>

\* CREATE TABLE regex_patterns: rows of DEFAULT_PATTERNS the model uses
PatternRow(id, name, pattern) == [id |-> id, name |-> name, pattern |-> pattern, is_active |-> TRUE]
SeededPatterns ==
    { PatternRow(1, "email", "[A-Za-z0-9._%+-]+@[A-Za-z0-9.-]+\\.[A-Za-z]{2,}"),
      PatternRow(2, "french_phone", "(?:\\+33\\s?|0)[1-9](?:[ .-]?\\d{2}){4}"),
      PatternRow(3, "cvv_3_4", "\\b\\d{3,4}\\b") }

GuardRow(id, name) == [id |-> id, name |-> name, is_active |-> TRUE]
FieldRow(id, gid, a) ==
    [id |-> id, guard_type_id |-> gid, field_name |-> a.field_name,
     detection_type |-> a.detection_type, regex_pattern |-> a.regex_pattern,
     ner_entity_type |-> a.ner_entity_type, is_active |-> TRUE]

\* the arguments of a create_pii_field call
FieldArgs(f, dt, pat, ner) ==
    [field_name |-> f, detection_type |-> dt, regex_pattern |-> pat, ner_entity_type |-> ner]
FieldInputs ==
    { FieldArgs("email", "regex", "email", None),
      FieldArgs("name", "ner", None, "PERSON"),
      FieldArgs("phone", "hybrid", "french_phone", "PHONE_NUMBER") }

SetMax(S) == CHOOSE m \in S : \A x \in S : x <= m
\* cursor.lastrowid of an INSERT into an AUTOINCREMENT table
lastrowid(rows) == IF rows = {} THEN 1 ELSE SetMax({r.id : r \in rows}) + 1

Ret(status, id) == [status |-> status, id |-> id]

\* SELECT ... FROM guard_types WHERE name = ? AND is_active = 1
get_guard_type(gts, name) == {r \in gts : r.name = name /\ r.is_active}

\* DatabaseManager.create_guard_type; guard_types.name is UNIQUE
create_guard_type(gts, name) ==
    LET act == get_guard_type(gts, name)
    IN  IF act # {}
        THEN [guard_types |-> gts, ret |-> Ret("ok", (CHOOSE r \in act : TRUE).id)]
        ELSE IF \E r \in gts : r.name = name
        THEN [guard_types |-> gts, ret |-> Ret("IntegrityError", 0)]
        ELSE [guard_types |-> gts \cup {GuardRow(lastrowid(gts), name)},
              ret |-> Ret("ok", lastrowid(gts))]

\* UPDATE <table> SET is_active = 0 WHERE id = ?
Deactivate(rows, id) ==
    {IF r.id = id THEN [r EXCEPT !.is_active = FALSE] ELSE r : r \in rows}

\* DatabaseManager.delete_guard_type: cursor.rowcount > 0
delete_guard_type(gts, pfs, id) ==
    [guard_types |-> Deactivate(gts, id),
     pii_fields |-> pfs,
     ret |-> Ret(IF \E r \in gts : r.id = id THEN "ok" ELSE "not_found", id)]

\* DatabaseManager.delete_pii_field
delete_pii_field(pfs, id) ==
    [pii_fields |-> Deactivate(pfs, id),
     ret |-> Ret(IF \E r \in pfs : r.id = id THEN "ok" ELSE "not_found", id)]

\* DatabaseManager.create_pii_field; pii_fields has UNIQUE(guard_type_id, field_name)
create_pii_field(gts, pfs, g, a) ==
    LET gt == get_guard_type(gts, g)
        gid == (CHOOSE r \in gt : TRUE).id
        row == {r \in pfs : r.guard_type_id = gid /\ r.field_name = a.field_name /\ r.is_active}
    IN  IF gt = {}
        THEN [pii_fields |-> pfs, ret |-> Ret("ValueError", 0)]
        ELSE IF row # {}
        THEN [pii_fields |-> pfs, ret |-> Ret("ok", (CHOOSE r \in row : TRUE).id)]
        ELSE IF \E r \in pfs : r.guard_type_id = gid /\ r.field_name = a.field_name
        THEN [pii_fields |-> pfs, ret |-> Ret("IntegrityError", 0)]
        ELSE [pii_fields |-> pfs \cup {FieldRow(lastrowid(pfs), gid, a)},
              ret |-> Ret("ok", lastrowid(pfs))]

\* DynamicConfigLoader.create_pii_field: validates, calls the store, and
\* turns every exception into {'success': False}
loader_create_pii_field(gts, pfs, g, a) ==
    IF a.detection_type \notin {"regex", "ner", "hybrid"}
    THEN [pii_fields |-> pfs, ret |-> Ret("failure", 0)]
    ELSE LET r == create_pii_field(gts, pfs, g, a)
         IN  IF r.ret.status = "ok" THEN r
             ELSE [pii_fields |-> pfs, ret |-> Ret("failure", 0)]

\* the dict get_pii_fields builds of one joined row
FieldDict(r, rps) ==
    LET rp == {x \in rps : x.name = r.regex_pattern}
        regex_pattern_value == IF rp = {} THEN None ELSE (CHOOSE x \in rp : TRUE).pattern
    IN  [id |-> r.id, field_name |-> r.field_name, detection_type |-> r.detection_type,
         regex_pattern |-> r.regex_pattern, ner_entity_type |-> r.ner_entity_type,
         is_active |-> r.is_active,
         pattern |-> IF r.regex_pattern # None /\ regex_pattern_value # None
                     THEN regex_pattern_value
                     ELSE IF r.regex_pattern # None THEN r.regex_pattern
                     ELSE None]

\* the rows of the SELECT of get_pii_fields whose field_name is FieldNameOrder[i], i >= k
RECURSIVE JoinedRows(_, _, _, _, _)
JoinedRows(gts, pfs, rps, g, k) ==
    IF k > Len(FieldNameOrder) THEN <<>>
    ELSE LET rows == {r \in pfs : /\ r.is_active
                                  /\ r.field_name = FieldNameOrder[k]
                                  /\ \E gt \in gts : gt.id = r.guard_type_id /\ gt.name = g}
         IN  (IF rows = {} THEN <<>> ELSE <<FieldDict(CHOOSE r \in rows : TRUE, rps)>>)
             \o JoinedRows(gts, pfs, rps, g, k + 1)

\* DatabaseManager.get_pii_fields
get_pii_fields(gts, pfs, rps, g) == JoinedRows(gts, pfs, rps, g, 1)

\* DynamicConfigLoader.get_guard_types
get_guard_types(gts, pfs, rps, g) ==
    LET fields == get_pii_fields(gts, pfs, rps, g)
    IN  [i \in 1..Len(SelectSeq(fields, LAMBDA f : f.is_active)) |->
            SelectSeq(fields, LAMBDA f : f.is_active)[i].field_name]

-----------------------------------------------------------------------------
\* The configuration API as a state machine (config_api.py)

Call(op, g, f, ret, fields) ==
    [op |-> op, guard |-> g, field |-> f, status |-> ret.status, id |-> ret.id,
     fields |-> fields]

\* an empty store holding the seeded patterns
InitConfig ==
    /\ guard_types = {}
    /\ pii_fields = {}
    /\ regex_patterns = SeededPatterns
    /\ cfg_ops = 0
    /\ last_call = NoCall
    /\ prev_call = NoCall
    /\ MaskIdle
    /\ DetIdle
    /\ ApiIdle
    /\ RunIdle

Served(call) ==
    /\ cfg_ops < MaxConfigOps
    /\ cfg_ops' = cfg_ops + 1
    /\ prev_call' = last_call
    /\ last_call' = call
    /\ UNCHANGED regex_patterns
    /\ UNCHANGED nonCfgVars

\* POST /guard-types
CreateGuardType ==
    \E name \in GuardNames :
        LET r == create_guard_type(guard_types, name)
        IN  /\ guard_types' = r.guard_types
            /\ UNCHANGED pii_fields
            /\ Served(Call("create_guard_type", name, "", r.ret, <<>>))

\* DELETE /guard-types/{guard_id} and DELETE /guard-types/by-name/{name}
DeleteGuardType ==
    \E id \in {r.id : r \in guard_types} \cup {lastrowid(guard_types)} :
        LET r == delete_guard_type(guard_types, pii_fields, id)
            names == {x.name : x \in {y \in guard_types : y.id = id}}
        IN  /\ guard_types' = r.guard_types
            /\ pii_fields' = r.pii_fields
            /\ Served(Call("delete_guard_type",
                           IF names = {} THEN "" ELSE CHOOSE n \in names : TRUE,
                           "", r.ret, <<>>))

\* POST /guard-types/{guard_name}/fields
CreatePiiField ==
    \E g \in GuardNames, a \in FieldInputs :
        LET r == loader_create_pii_field(guard_types, pii_fields, g, a)
        IN  /\ pii_fields' = r.pii_fields
            /\ UNCHANGED guard_types
            /\ Served(Call("create_pii_field", g, a.field_name, r.ret, <<>>))

\* DELETE /pii-fields/{field_id}
DeletePiiField ==
    \E id \in {r.id : r \in pii_fields} \cup {lastrowid(pii_fields)} :
        LET r == delete_pii_field(pii_fields, id)
        IN  /\ pii_fields' = r.pii_fields
            /\ UNCHANGED guard_types
            /\ Served(Call("delete_pii_field", "", "", r.ret, <<>>))

\* GET /guard-types/{guard_name}/fields
GetPiiFields ==
    \E g \in GuardNames :
        /\ UNCHANGED <<guard_types, pii_fields>>
        /\ Served(Call("get_pii_fields", g, "", Ret("ok", 0),
                       get_pii_fields(guard_types, pii_fields, regex_patterns, g)))

NextConfig ==
    CreateGuardType \/ DeleteGuardType \/ CreatePiiField \/ DeletePiiField \/ GetPiiFields

SpecConfig == InitConfig /\ [][NextConfig]_vars

-----------------------------------------------------------------------------
\* Claims on the configuration store (checked under SpecConfig)

\* the rows of pii_fields for the key (guard type named g, field_name f)
RowsOfKey(g, f) ==
    {r \in pii_fields : /\ r.field_name = f
                        /\ \E gt \in guard_types : gt.name = g /\ gt.id = r.guard_type_id}

TwoCreatesOfOneKey ==
    /\ prev_call.op = "create_pii_field"
    /\ last_call.op = "create_pii_field"
    /\ prev_call.guard = last_call.guard
    /\ prev_call.field = last_call.field

\* C7 (as claimed): calling create_pii_field twice with the same
\* (guard type, field_name) returns the same field identifier both times and
\* leaves exactly one row for that key.
C7_IdempotentCreate ==
    (TwoCreatesOfOneKey /\ \E gt \in guard_types : gt.name = last_call.guard /\ gt.is_active)
        => /\ prev_call.status = "ok"
           /\ last_call.status = "ok"
           /\ prev_call.id = last_call.id
           /\ Cardinality(RowsOfKey(last_call.guard, last_call.field)) = 1

\* C10 (as claimed): after delete_guard_type(g) every field of g is
\* deactivated too, so get_pii_fields(g) returns no field.
C10_CascadeOnSoftDelete ==
    (/\ prev_call.op = "delete_guard_type"
     /\ prev_call.status = "ok"
     /\ last_call.op = "get_pii_fields"
     /\ last_call.guard = prev_call.guard)
        => /\ last_call.fields = <<>>
           /\ \A r \in pii_fields : r.guard_type_id = prev_call.id => ~r.is_active

-----------------------------------------------------------------------------
\* Text helpers of the detection pipeline (str methods and the built-in
\* regular expressions of pii_detector_french.py, on sequences of symbols)

Str(chars) == [i \in 1..Len(chars) |-> Chr(chars[i])]

UpperCase == <<"A", "B", "C", "D", "E", "F", "I", "J", "L", "M", "N", "O", "P", "R", "S", "V", "É">>
LowerCase == <<"a", "b", "c", "d", "e", "f", "i", "j", "l", "m", "n", "o", "p", "r", "s", "v", "é">>
DigitChars == {"0", "1", "2", "3", "4", "5", "6", "7", "8", "9"}

\* str.isdigit, str.isupper on one symbol
isdigit(sym) == sym.t = "" /\ sym.h.k \in DigitChars
isupper(sym) == sym.t = "" /\ \E i \in 1..Len(UpperCase) : UpperCase[i] = sym.h.k
isspace(sym) == sym.t = "" /\ sym.h.k = " "
\* \w of the re module
IsWordChar(sym) == sym.t = "" /\ sym.h.k \notin {" ", "(", ")", "@", ".", ",", ":", "-"}

\* str.lower
LowerChar(sym) ==
    IF isupper(sym)
    THEN Chr(LowerCase[CHOOSE i \in 1..Len(UpperCase) : UpperCase[i] = sym.h.k])
    ELSE sym
lower(s) == [i \in 1..Len(s) |-> LowerChar(s[i])]

\* str.strip
RECURSIVE lstrip(_)
lstrip(s) == IF s # <<>> /\ isspace(Head(s)) THEN lstrip(Tail(s)) ELSE s
RECURSIVE rstrip(_)
rstrip(s) == IF s # <<>> /\ isspace(s[Len(s)]) THEN rstrip(SubSeq(s, 1, Len(s) - 1)) ELSE s
strip(s) == rstrip(lstrip(s))

\* w occurs in s (re.search of a literal)
Contains(s, w) == \E i \in 0..(Len(s) - Len(w)) : SubSeq(s, i + 1, i + Len(w)) = w

\* re.search(r'(cvv|cvc|code\s+de\s+s[eé]curit[ée]|s[eé]curit[ée])', context):
\* the third alternative ends with the fourth, so the search succeeds exactly
\* when cvv, cvc or s[eé]curit[ée] occurs
CvvKeywords ==
    { Str(<<"c", "v", "v">>), Str(<<"c", "v", "c">>),
      Str(<<"s", "e", "c", "u", "r", "i", "t", "e">>),
      Str(<<"s", "é", "c", "u", "r", "i", "t", "é">>),
      Str(<<"s", "e", "c", "u", "r", "i", "t", "é">>),
      Str(<<"s", "é", "c", "u", "r", "i", "t", "e">>) }
HasCvvContext(context) == \E w \in CvvKeywords : Contains(context, w)

\* re.fullmatch(r'19\d\d|20\d\d', val)
IsYear(val) ==
    /\ Len(val) = 4
    /\ <<val[1], val[2]>> \in {<<Chr("1"), Chr("9")>>, <<Chr("2"), Chr("0")>>}
    /\ isdigit(val[3]) /\ isdigit(val[4])

\* re.fullmatch(r'\d{3,4}', val)
IsShortNumber(val) == Len(val) \in {3, 4} /\ \A i \in 1..Len(val) : isdigit(val[i])

-----------------------------------------------------------------------------
\* The external detectors.  What a detector returns for the request text is an
\* input: a set of hits [det, key, start, end, score], where det names the
\* detector ("regex": re.finditer of the pattern text key; "presidio_fr",
\* "presidio_en": AnalyzerEngine.analyze for the entity type key; "camembert",
\* "bert": the pipelines of NLPModels with entity_group key; "heuristic": the
\* three patterns of _heuristic_name_entities).  The two security-code
\* patterns are evaluated on the text itself.

Hit(det, key, s, e, sc) == [det |-> det, key |-> key, start |-> s, end |-> e, score |-> sc]

HitKey(h) == <<h.start, h.end, h.score>>
RECURSIVE SortHits(_)
SortHits(S) ==
    IF S = {} THEN <<>>
    ELSE LET m == CHOOSE x \in S : \A y \in S \ {x} : TupleLess(HitKey(x), HitKey(y))
         IN  <<m>> \o SortHits(S \ {m})

\* the answers of one detector for one key, in text order
Answers(world, det, key) == SortHits({h \in world : h.det = det /\ h.key = key})

BareCvvPattern == "\\d{3,4}"
SeededCvvPattern == "\\b\\d{3,4}\\b"

\* the number of digits of txt from offset pos on
RECURSIVE DigitRun(_, _)
DigitRun(txt, pos) ==
    IF pos < Len(txt) /\ isdigit(txt[pos + 1]) THEN 1 + DigitRun(txt, pos + 1) ELSE 0

\* \b at offset pos of txt, next to a digit
WordBoundaryBefore(txt, pos) == pos = 0 \/ ~IsWordChar(txt[pos])
WordBoundaryAfter(txt, pos) == pos = Len(txt) \/ ~IsWordChar(txt[pos + 1])

\* the end of the match of the pattern at offset pos, or -1
MatchDigitsAt(pattern, txt, pos) ==
    LET n == DigitRun(txt, pos)
    IN  IF n < 3 THEN -1
        ELSE IF pattern = BareCvvPattern THEN pos + Min(n, 4)
        ELSE IF ~WordBoundaryBefore(txt, pos) THEN -1
        ELSE IF n >= 4 /\ WordBoundaryAfter(txt, pos + 4) THEN pos + 4
        ELSE IF WordBoundaryAfter(txt, pos + 3) THEN pos + 3
        ELSE -1

\* re.finditer of a security-code pattern: leftmost matches, left to right
RECURSIVE FindDigits(_, _, _)
FindDigits(pattern, txt, pos) ==
    IF pos >= Len(txt) THEN <<>>
    ELSE LET e == MatchDigitsAt(pattern, txt, pos)
         IN  IF e >= 0 THEN <<Hit("regex", pattern, pos, e, 0)>> \o FindDigits(pattern, txt, e)
             ELSE FindDigits(pattern, txt, pos + 1)

\* compiled_pattern.finditer(text)
finditer(pattern, txt, world) ==
    IF pattern \in {BareCvvPattern, SeededCvvPattern}
    THEN FindDigits(pattern, txt, 0)
    ELSE Answers(world, "regex", pattern)

-----------------------------------------------------------------------------
\* PIIDetectorFrench._detect_with_regex

CvvWindow == 40
\* confidences are in hundredths: 0.9
RegexConfidence == 90

\* the security-code filter without its lexical context
CvvKept_ignoring_context(field, txt, s, e) ==
    /\ ~((s > 0 /\ isdigit(txt[s])) \/ (e < Len(txt) /\ isdigit(txt[e + 1])))
    /\ ~IsYear(PySlice(txt, s, e))

\* the filter applied to the matches of the field named 'cvv': TRUE when the
\* match [s, e) is kept
CvvKept(field, txt, s, e) ==
    LET val == PySlice(txt, s, e)
        window_start == Max(0, s - CvvWindow)
        context == lower(PySlice(txt, window_start, s))
    IN  /\ ~((s > 0 /\ isdigit(txt[s])) \/ (e < Len(txt) /\ isdigit(txt[e + 1])))
        /\ ~IsYear(val)
        /\ ~(~HasCvvContext(context) /\ field.pattern = BareCvvPattern)

\* the entities one field contributes, one per match that is kept
RECURSIVE RegexEntitiesOf(_, _, _)
RegexEntitiesOf(field, txt, matches) ==
    IF matches = <<>> THEN <<>>
    ELSE LET m == Head(matches)
         IN  (IF field.field_name = "cvv" /\ ~CvvKept(field, txt, m.start, m.end)
              THEN <<>>
              ELSE <<Ent(m.start, m.end, PySlice(txt, m.start, m.end), field.field_name,
                         "regex_db", RegexConfidence, TRUE)>>)
             \o RegexEntitiesOf(field, txt, Tail(matches))

\* the fields whose pattern the regex step runs
RunsRegex(field) == field.detection_type = "regex" /\ field.pattern # None

RECURSIVE detect_with_regex(_, _, _)
detect_with_regex(txt, fields, world) ==
    IF fields = <<>> THEN <<>>
    ELSE (IF RunsRegex(Head(fields))
          THEN RegexEntitiesOf(Head(fields), txt, finditer(Head(fields).pattern, txt, world))
          ELSE <<>>)
         \o detect_with_regex(txt, Tail(fields), world)

-----------------------------------------------------------------------------
\* PIIDetectorFrench._detect_with_ner_for_configured_fields

\* ENTITY_MAPPING (entity_mapping.py): synonym -> canonical label
entity_mapping(raw) ==
    CASE raw = "PER" -> "PERSON"
      [] raw = "NAME" -> "PERSON"
      [] raw = "EMAIL" -> "EMAIL_ADDRESS"
      [] raw = "PHONE" -> "PHONE_NUMBER"
      [] OTHER -> raw

\* the languages of the spaCy engine, 'en' appended when absent
loaded_langs == <<"fr", "en">>

EmailFallbackPattern == "[A-Za-z0-9._%+-]+@[A-Za-z0-9.-]+\\.[A-Za-z]{2,}"
EmailFallbackConfidence == 50

IsNerField(field) == field.detection_type = "ner" /\ field.ner_entity_type # None
NerFields(fields) == SelectSeq(fields, IsNerField)

\* A detector that has failed raises on every call: the world holds a mark for
\* it.  The value of a call that raised stands in the place of its result
\* until a handler replaces it.
FailureMark(det) == Hit(det, "exception", 0, 0, 0)
HasFailed(world, det) == FailureMark(det) \in world
Raised == <<Hit("exception", "", 0, 0, 0)>>

\* self.presidio_analyzer.analyze(text=text, language=lang, entities=[key])
analyze(world, det, key) == IF HasFailed(world, det) THEN Raised ELSE Answers(world, det, key)

\* self.models.camembert_model(text), self.models.bert_model(text)
pipeline(world, det) ==
    IF HasFailed(world, det) THEN Raised ELSE SortHits({h \in world : h.det = det})

\* a call outside any try block: the exception goes on
TryExcept_uncaught(result, handled) == result
\* try: result ... except Exception: handled
TryExcept(result, handled) == IF result = Raised THEN handled ELSE result

\* the results of one analyze call that become entities of the field
RECURSIVE NerAccepted(_, _, _, _, _)
NerAccepted(field, txt, covered, lang, results) ==
    IF results = <<>> THEN <<>>
    ELSE LET r == Head(results)
             detected_text == PySlice(txt, r.start, r.end)
         IN  (IF detected_text \in covered THEN <<>>
              ELSE <<Ent(r.start, r.end, detected_text, field.field_name,
                         "ner_configured_" \o lang, r.score, TRUE)>>)
             \o NerAccepted(field, txt, covered, lang, Tail(results))

\* for lang in loaded_langs: ... if found: break
RECURSIVE NerOfField(_, _, _, _, _)
NerOfField(field, txt, covered, world, langs) ==
    IF langs = <<>> THEN <<>>
    ELSE LET presidio_type == entity_mapping(field.ner_entity_type)
             results == TryExcept(analyze(world, "presidio_" \o Head(langs), presidio_type), <<>>)
             found == NerAccepted(field, txt, covered, Head(langs), results)
         IN  IF found # <<>> THEN found
             ELSE NerOfField(field, txt, covered, world, Tail(langs))

\* the analyze calls made for one field: <<field_name, entity type, language>>
RECURSIVE NerCallsOfField(_, _, _, _, _)
NerCallsOfField(field, txt, covered, world, langs) ==
    IF langs = <<>> THEN {}
    ELSE LET presidio_type == entity_mapping(field.ner_entity_type)
             results == TryExcept(analyze(world, "presidio_" \o Head(langs), presidio_type), <<>>)
             found == NerAccepted(field, txt, covered, Head(langs), results)
         IN  {<<field.field_name, presidio_type, Head(langs)>>}
             \cup (IF found # <<>> THEN {}
                   ELSE NerCallsOfField(field, txt, covered, world, Tail(langs)))

RECURSIVE NerWithPresidio(_, _, _, _)
NerWithPresidio(ner_fields, txt, covered, world) ==
    IF ner_fields = <<>> THEN <<>>
    ELSE NerOfField(Head(ner_fields), txt, covered, world, loaded_langs)
         \o NerWithPresidio(Tail(ner_fields), txt, covered, world)

\* Presidio inactive: the e-mail regex stands in for EMAIL_ADDRESS fields
IsEmailLike(field) == field.ner_entity_type \in {"EMAIL_ADDRESS", "EMAIL"}
RECURSIVE EmailFallbackOf(_, _, _)
EmailFallbackOf(email_like, txt, m) ==
    IF email_like = <<>> THEN <<>>
    ELSE <<Ent(m.start, m.end, PySlice(txt, m.start, m.end), Head(email_like).field_name,
               "ner_fallback_regex", EmailFallbackConfidence, TRUE)>>
         \o EmailFallbackOf(Tail(email_like), txt, m)
RECURSIVE NerWithoutPresidio(_, _, _, _)
NerWithoutPresidio(email_like, txt, covered, matches) ==
    IF matches = <<>> \/ email_like = <<>> THEN <<>>
    ELSE (IF PySlice(txt, Head(matches).start, Head(matches).end) \in covered THEN <<>>
          ELSE EmailFallbackOf(email_like, txt, Head(matches)))
         \o NerWithoutPresidio(email_like, txt, covered, Tail(matches))

detect_with_ner_for_configured_fields(txt, fields, covered, world, presidio_analyzer) ==
    LET ner_fields == NerFields(fields)
    IN  IF presidio_analyzer
        THEN NerWithPresidio(ner_fields, txt, covered, world)
        ELSE NerWithoutPresidio(SelectSeq(ner_fields, IsEmailLike), txt, covered,
                                finditer(EmailFallbackPattern, txt, world))

RECURSIVE NerCalls(_, _, _, _)
NerCalls(ner_fields, txt, covered, world) ==
    IF ner_fields = <<>> THEN {}
    ELSE NerCallsOfField(Head(ner_fields), txt, covered, world, loaded_langs)
         \cup NerCalls(Tail(ner_fields), txt, covered, world)

-----------------------------------------------------------------------------
\* PIIDetectorFrench._augment_with_fallback_models

FallbackDefaultConfidence == 50

\* _map_camembert_type, _map_bert_type
map_camembert_type(entity_group) ==
    CASE entity_group \in {"PER", "PERS"} -> "name"
      [] entity_group = "LOC" -> "address"
      [] entity_group = "ORG" -> "company"
      [] OTHER -> "unknown"
map_bert_type(entity_group) ==
    CASE entity_group \in {"PER", "PERSON", "MISC"} -> "name"
      [] entity_group = "LOC" -> "address"
      [] entity_group = "ORG" -> "company"
      [] OTHER -> "unknown"

\* _detect_with_camembert: the results with a known type, confidence = score
RECURSIVE CamembertEntities(_, _)
CamembertEntities(txt, results) ==
    IF results = <<>> THEN <<>>
    ELSE LET res == Head(results)
         IN  (IF map_camembert_type(res.key) = "unknown" THEN <<>>
              ELSE <<Ent(res.start, res.end, PySlice(txt, res.start, res.end),
                         map_camembert_type(res.key), "camembert", res.score, TRUE)>>)
             \o CamembertEntities(txt, Tail(results))

\* _detect_with_bert: no confidence key, the caller's default applies
RECURSIVE BertEntities(_, _)
BertEntities(txt, results) ==
    IF results = <<>> THEN <<>>
    ELSE LET res == Head(results)
         IN  (IF res.key \notin {"PER", "LOC", "ORG", "MISC"} THEN <<>>
              ELSE <<Ent(res.start, res.end, PySlice(txt, res.start, res.end),
                         map_bert_type(res.key), "bert", FallbackDefaultConfidence, TRUE)>>)
             \o BertEntities(txt, Tail(results))

semantic_map(app_type) ==
    CASE app_type = "name" -> "PERSON"
      [] app_type = "company" -> "ORGANIZATION"
      [] app_type = "address" -> "LOCATION"
      [] app_type = "birth_date" -> "DATE_TIME"
      [] OTHER -> None

\* configured[f['ner_entity_type'].upper()] = f: the last NER field of the type
ConfiguredFor(fields, canonical) ==
    LET fs == SelectSeq(NerFields(fields), LAMBDA f : f.ner_entity_type = canonical)
    IN  IF fs = <<>> THEN <<>> ELSE <<fs[Len(fs)]>>

RECURSIVE FallbackAdditions(_, _, _)
FallbackAdditions(combined, fields, already_texts) ==
    IF combined = <<>> THEN <<>>
    ELSE LET res == Head(combined)
             canonical == semantic_map(res.type)
             conf == ConfiguredFor(fields, canonical)
         IN  (IF canonical = None \/ conf = <<>> THEN <<>>
              ELSE IF <<res.text, conf[1].field_name>> \in already_texts THEN <<>>
              ELSE <<Ent(res.start, res.end, res.text, conf[1].field_name,
                         "ner_fallback_model", res.confidence, TRUE)>>)
             \o FallbackAdditions(Tail(combined), fields, already_texts)

augment_with_fallback_models(txt, fields, existing_ner, world) ==
    IF NerFields(fields) = <<>> THEN <<>>
    ELSE FallbackAdditions(
            CamembertEntities(txt, TryExcept(pipeline(world, "camembert"), <<>>))
                \o BertEntities(txt, TryExcept(pipeline(world, "bert"), <<>>)),
            fields,
            {<<existing_ner[i].text, existing_ner[i].type>> : i \in 1..Len(existing_ner)})

-----------------------------------------------------------------------------
\* PIIDetectorFrench._heuristic_name_entities

HeuristicConfidence == 60

IsPersonField(field) ==
    field.detection_type = "ner" /\ field.ner_entity_type \in {"PERSON", "PER"}

\* str.upper on the first symbol
UpperChar(sym) ==
    IF sym.t = "" /\ \E i \in 1..Len(LowerCase) : LowerCase[i] = sym.h.k
    THEN Chr(UpperCase[CHOOSE i \in 1..Len(LowerCase) : LowerCase[i] = sym.h.k])
    ELSE sym

\* m.group(1).strip(" -'")
IsNameTrim(sym) == sym.t = "" /\ sym.h.k \in {" ", "-", "'"}
RECURSIVE StripName(_)
StripName(s) ==
    IF s # <<>> /\ IsNameTrim(Head(s)) THEN StripName(Tail(s))
    ELSE IF s # <<>> /\ IsNameTrim(s[Len(s)]) THEN StripName(SubSeq(s, 1, Len(s) - 1))
    ELSE s

HeuristicNoise ==
    { Str(<<"m", "o", "n">>), Str(<<"a", "m", "i">>), Str(<<"a", "m", "i", "e">>),
      Str(<<"j", "e">>) }

RECURSIVE HeuristicFound(_, _, _, _)
HeuristicFound(txt, target_field, existing_lower_spans, matches) ==
    IF matches = <<>> THEN <<>>
    ELSE LET m == Head(matches)
             name_raw == StripName(PySlice(txt, m.start, m.end))
             norm == <<UpperChar(name_raw[1])>> \o Tail(name_raw)
         IN  (IF Len(name_raw) < 2 THEN <<>>
              ELSE IF <<lower(norm), target_field.field_name>> \in existing_lower_spans THEN <<>>
              ELSE IF lower(norm) \in HeuristicNoise THEN <<>>
              ELSE <<Ent(m.start, m.end, norm, target_field.field_name,
                         "heuristic_name", HeuristicConfidence, TRUE)>>)
             \o HeuristicFound(txt, target_field, existing_lower_spans, Tail(matches))

heuristic_name_entities(txt, fields, existing, world) ==
    LET person_fields == SelectSeq(fields, IsPersonField)
    IN  IF person_fields = <<>> THEN <<>>
        ELSE HeuristicFound(txt, person_fields[1],
                 {<<lower(existing[i].text), existing[i].type>> : i \in 1..Len(existing)},
                 SortHits({h \in world : h.det = "heuristic"}))

-----------------------------------------------------------------------------
\* PIIDetectorFrench._validate_entities and filter_false_positives
\* (common_words_filter.py)

\* the words of COMMON_FRENCH_WORDS that occur in the texts of the model
COMMON_FRENCH_WORDS ==
    { Str(<<"e", "t">>), Str(<<"m", "o", "n">>), Str(<<"e", "s", "t">>),
      Str(<<"j", "e">>), Str(<<"l", "e">>), Str(<<"d", "e">>) }

\* SUSPICIOUS_PATTERNS['name'], among the words above
SuspiciousNames == { Str(<<"e", "t">>), Str(<<"l", "e">>) }

is_common_word(txt) == strip(lower(txt)) \in COMMON_FRENCH_WORDS
SuspiciousCompanies == { Str(<<"j", "e">>), Str(<<"l", "e">>), Str(<<"d", "e">>) }
is_suspicious_entity(txt, entity_type) ==
    \/ entity_type = "name" /\ strip(lower(txt)) \in SuspiciousNames
    \/ entity_type = "company" /\ strip(lower(txt)) \in SuspiciousCompanies

validate_entities(entities) ==
    SelectSeq(entities, LAMBDA e : strip(e.text) # <<>>)

KeptByFilter(entity) ==
    LET txt == strip(entity.text)
    IN  /\ Len(txt) >= 2
        /\ is_common_word(txt) =>
              (entity.type \in {"name", "person", "PERSON"} /\ isupper(txt[1]))
        /\ ~is_suspicious_entity(txt, entity.type)

filter_false_positives(entities) == SelectSeq(entities, KeptByFilter)

-----------------------------------------------------------------------------
\* PIIDetectorFrench._merge_entities

NameGap == 5

NameLike(e) == e.type \in {"name", "full_name", "firstname"}

\* entities.sort(key=lambda x: (x['start'], -x['end']))
SortByPosition(entities) ==
    Items(SortPairs([i \in 1..Len(entities) |->
                        <<<<entities[i].start, 0 - entities[i].end>>, entities[i]>>]))

Overlapping(entity, merged_entity) ==
    entity.start < merged_entity.end /\ entity.end > merged_entity.start

\* the adjacency test with the bound excluded
Adjacent_below_gap(gap) == 0 <= gap /\ gap < NameGap

\* if 0 <= gap <= 5
Adjacent(gap) == 0 <= gap /\ gap <= NameGap

\* the entity that replaces two adjacent names
MergedNames(merged_entity, entity) ==
    Ent(merged_entity.start, entity.end,
        merged_entity.text \o <<Chr(" ")>> \o entity.text,
        "name", "merged_names",
        Max(entity.confidence, merged_entity.confidence), TRUE)

\* the inner loop: entity against merged[i], merged[i+1], ...
RECURSIVE MergeInto(_, _, _)
MergeInto(merged, entity, i) ==
    IF i > Len(merged) THEN Append(merged, entity)
    ELSE IF Overlapping(entity, merged[i])
    THEN IF \/ entity.confidence > merged[i].confidence
            \/ (entity.end - entity.start) > (merged[i].end - merged[i].start)
         THEN [merged EXCEPT ![i] = entity]
         ELSE merged
    ELSE IF /\ NameLike(entity) /\ NameLike(merged[i])
            /\ Adjacent(entity.start - merged[i].end)
    THEN [merged EXCEPT ![i] = MergedNames(merged[i], entity)]
    ELSE MergeInto(merged, entity, i + 1)

RECURSIVE MergeAll(_, _)
MergeAll(merged, entities) ==
    IF entities = <<>> THEN merged
    ELSE MergeAll(MergeInto(merged, Head(entities), 1), Tail(entities))

\* "Supprimer les doublons exacts"
DedupeKey(e) == <<lower(e.text), e.type, e.start, e.end>>
RECURSIVE unique_entities(_, _)
unique_entities(merged, seen) ==
    IF merged = <<>> THEN <<>>
    ELSE IF DedupeKey(Head(merged)) \in seen THEN unique_entities(Tail(merged), seen)
    ELSE <<Head(merged)>> \o unique_entities(Tail(merged), seen \cup {DedupeKey(Head(merged))})

merge_entities(entities) ==
    unique_entities(MergeAll(<<>>, SortByPosition(entities)), {})

-----------------------------------------------------------------------------
\* PIIDetectorFrench._unify_equivalent_types

IdentityDocumentMembers == {"id_card", "passport"}

\* the keys of by_span, in insertion order
RECURSIVE SpanKeys(_, _)
SpanKeys(entities, seen) ==
    IF entities = <<>> THEN <<>>
    ELSE LET key == <<Head(entities).start, Head(entities).end>>
         IN  IF key \in seen THEN SpanKeys(Tail(entities), seen)
             ELSE <<key>> \o SpanKeys(Tail(entities), seen \cup {key})

\* the unification that renames every entity of the span and keeps them all
UnifiedSpan_keeping_all(ents) ==
    LET member_types == {ents[i].type : i \in 1..Len(ents)}
    IN  IF Cardinality(member_types \cap IdentityDocumentMembers) >= 2
        THEN [i \in 1..Len(ents) |->
                 ("original_type" :> ents[i].type) @@ [ents[i] EXCEPT !.type = "identity_document"]]
        ELSE ents

\* what one span contributes to `updated`
UnifiedSpan(ents) ==
    LET member_types == {ents[i].type : i \in 1..Len(ents)}
        regex_first == SelectSeq(ents, LAMBDA e : e.source = "regex_db")
                       \o SelectSeq(ents, LAMBDA e : e.source # "regex_db")
    IN  IF Cardinality(member_types \cap IdentityDocumentMembers) >= 2
        THEN <<("original_type" :> regex_first[1].type)
                   @@ [regex_first[1] EXCEPT !.type = "identity_document"]>>
        ELSE ents

RECURSIVE UnifyKeys(_, _)
UnifyKeys(entities, keys) ==
    IF keys = <<>> THEN <<>>
    ELSE UnifiedSpan(SelectSeq(entities, LAMBDA e : <<e.start, e.end>> = Head(keys)))
         \o UnifyKeys(entities, Tail(keys))

unify_equivalent_types(entities) == UnifyKeys(entities, SpanKeys(entities, {}))

-----------------------------------------------------------------------------
\* PIIDetectorFrench._post_process_incoherences (PII_STRICT_NUMERIC unset: strict)

NumericWindow == 40

\* the index of e-mail spans left empty
EmailSpans_none(entities) == {}

EmailSpans(entities) ==
    {<<entities[i].start, entities[i].end>> :
        i \in {j \in 1..Len(entities) : entities[j].type \in {"email", "EMAIL", "email_address"}}}

\* steps 1 and 2: TRUE when the entity goes to `cleaned`
KeptByPostProcess(ent, email_spans, txt) ==
    /\ ~(/\ ent.type \in {"name", "full_name", "firstname", "person"}
         /\ \E sp \in email_spans : ent.start >= sp[1] /\ ent.end <= sp[2])
    /\ ~(/\ ent.type \notin {"cvv", "credit_card", "iban", "phone", "social_security"}
         /\ IsShortNumber(ent.text)
         /\ ~HasCvvContext(lower(PySlice(txt, Max(0, ent.start - NumericWindow), ent.start))))

\* step 3: a cvv inside a card number of `cleaned` is dropped
CvvInsideCard(cleaned_list, i) ==
    /\ cleaned_list[i].type = "cvv"
    /\ \E j \in 1..Len(cleaned_list) :
          /\ j # i
          /\ cleaned_list[j].type \in {"credit_card", "card_number"}
          /\ cleaned_list[j].start <= cleaned_list[i].start
          /\ cleaned_list[j].end >= cleaned_list[i].end

RECURSIVE FinalList(_, _)
FinalList(cleaned_list, i) ==
    IF i > Len(cleaned_list) THEN <<>>
    ELSE (IF CvvInsideCard(cleaned_list, i) THEN <<>> ELSE <<cleaned_list[i]>>)
         \o FinalList(cleaned_list, i + 1)

post_process_incoherences(entities, txt) ==
    LET email_spans == EmailSpans(entities)
        cleaned_list == SelectSeq(entities, LAMBDA e : KeptByPostProcess(e, email_spans, txt))
    IN  FinalList(cleaned_list, 1)

-----------------------------------------------------------------------------
\* PIIDetectorFrench.detect: every stage of one call

\* PIIDetectorFrench.detect.  Each of the four steps that use the field
\* definitions fetches them itself (get_pii_fields at lines 445, 215, 141 and
\* 772): regex_fields, ner_fields, fallback_fields and heuristic_fields are
\* what the four calls returned.
detect_reading(txt, regex_fields, ner_fields, fallback_fields, heuristic_fields, world, presidio_analyzer) ==
    LET regex_found == detect_with_regex(txt, regex_fields, world)
        regex_covered_text == {regex_found[i].text : i \in 1..Len(regex_found)}
        ner_found == detect_with_ner_for_configured_fields(
                         txt, ner_fields, regex_covered_text, world, presidio_analyzer)
        fallback_added == augment_with_fallback_models(txt, fallback_fields, ner_found, world)
        entities == regex_found \o ner_found \o fallback_added
        heuristic_new == heuristic_name_entities(txt, heuristic_fields, entities, world)
        filtered == filter_false_positives(validate_entities(entities \o heuristic_new))
        regex_part == SelectSeq(filtered, LAMBDA e : e.source = "regex_db")
        others == SelectSeq(filtered, LAMBDA e : e.source # "regex_db")
        merged == merge_entities(others)
    IN  [regex_entities |-> regex_found,
         ner_entities |-> ner_found,
         ner_calls |-> IF presidio_analyzer
                       THEN NerCalls(NerFields(ner_fields), txt, regex_covered_text, world)
                       ELSE {},
         other_part |-> others,
         merged_other |-> merged,
         final_entities |-> post_process_incoherences(
                                unify_equivalent_types(regex_part \o merged), txt)]

\* detect on a store that does not change during the call
detect(txt, fields, world, presidio_analyzer) ==
    detect_reading(txt, fields, fields, fields, fields, world, presidio_analyzer)

-----------------------------------------------------------------------------
\* Requests to the detection pipeline

MaxHits == 3

\* "Marie Dubois (et Durand) jo@x.fr 0612345678"
NameText ==
    Str(<<"M", "a", "r", "i", "e", " ", "D", "u", "b", "o", "i", "s", " ",
          "(", "e", "t", " ", "D", "u", "r", "a", "n", "d", ")", " ",
          "j", "o", "@", "x", ".", "f", "r", " ",
          "0", "6", "1", "2", "3", "4", "5", "6", "7", "8">>)

PhonePattern == "(?:\\+33\\s?|0)[1-9](?:[ .-]?\\d{2}){4}"

\* what re.finditer finds in the text for the seeded patterns: the e-mail
\* address and the telephone number
RegexFacts(txt) ==
    IF txt = NameText
    THEN {Hit("regex", EmailFallbackPattern, 25, 32, 0), Hit("regex", PhonePattern, 33, 43, 0)}
    ELSE {}

\* what the statistical models may return for NameText
ModelPool(txt) ==
    IF txt # NameText THEN {}
    ELSE { Hit("presidio_fr", "PERSON", 0, 5, 85),      \* Marie
           Hit("presidio_fr", "PERSON", 0, 5, 60),
           Hit("presidio_fr", "PERSON", 6, 12, 85),     \* Dubois
           Hit("presidio_fr", "PERSON", 6, 12, 60),
           Hit("presidio_fr", "PERSON", 0, 12, 85),     \* Marie Dubois
           Hit("presidio_fr", "PERSON", 3, 8, 85),      \* "ie Du"
           Hit("presidio_fr", "PERSON", 14, 16, 85),    \* et
           Hit("presidio_fr", "PERSON", 17, 23, 85),    \* Durand, 5 after Dubois
           Hit("presidio_fr", "PERSON", 18, 23, 85),    \* urand, 6 after Dubois
           Hit("presidio_fr", "PERSON", 25, 27, 85),    \* jo, inside the address
           Hit("presidio_fr", "PERSON", 17, 27, 85),    \* "Durand) jo"
           Hit("presidio_en", "PERSON", 0, 5, 85),
           Hit("presidio_fr", "PHONE_NUMBER", 33, 43, 85),
           Hit("camembert", "PER", 17, 23, 70),
           Hit("bert", "PER", 0, 5, 0) }

\* the texts "mon <word> est <pad><digits><tail>"
CvvWords ==
    { Str(<<"c", "o", "d", "e">>), Str(<<"c", "v", "v">>), Str(<<"C", "V", "C">>),
      Str(<<"s", "é", "c", "u", "r", "i", "t", "é">>) }
CvvPads == {0, 27, 28, 32, 33}
CvvDigits ==
    { Str(<<"3", "8", "1">>), Str(<<"1", "9", "9", "9">>), Str(<<"2", "0", "2", "4">>),
      Str(<<"3", "8", "1", "2">>), Str(<<"1", "2", "3", "4", "5">>) }
CvvTails == { <<>>, Str(<<"b">>), Str(<<" ", "o", "k">>) }
CvvText(word, pad, digits, tail) ==
    Str(<<"m", "o", "n", " ">>) \o word \o Str(<<" ", "e", "s", "t", " ">>)
        \o [i \in 1..pad |-> Chr(" ")] \o digits \o tail
CvvTexts ==
    {CvvText(w, k, d, t) : w \in CvvWords, k \in CvvPads, d \in CvvDigits, t \in CvvTails}

\* the field lists of the guard type of the request
NameConfigs ==
    { <<FieldArgs("email", "regex", "email", None),
        FieldArgs("name", "ner", None, "PERSON"),
        FieldArgs("phone", "hybrid", "french_phone", "PHONE_NUMBER")>>,
      <<FieldArgs("email", "regex", "email", None),
        FieldArgs("firstname", "ner", None, "PER"),
        FieldArgs("name", "ner", None, "PERSON")>> }
CvvConfigs ==
    { <<FieldArgs("cvv", "regex", BareCvvPattern, None)>>,
      <<FieldArgs("cvv", "regex", "cvv_3_4", None)>> }

Scenarios == ({NameText} \X NameConfigs) \cup (CvvTexts \X CvvConfigs)

\* the store after create_guard_type(g) and create_pii_field(g, a) for each a
RECURSIVE SeedFields(_, _, _, _)
SeedFields(gts, pfs, g, args) ==
    IF args = <<>> THEN pfs
    ELSE SeedFields(gts, create_pii_field(gts, pfs, g, Head(args)).pii_fields, g, Tail(args))

-----------------------------------------------------------------------------
\* The detection pipeline as a state machine

RequestGuard == "TypeA"

InitDetect ==
    /\ \E sc \in Scenarios :
          /\ text = sc[1]
          /\ answers = RegexFacts(sc[1])
          /\ guard_types = create_guard_type({}, RequestGuard).guard_types
          /\ pii_fields = SeedFields(create_guard_type({}, RequestGuard).guard_types,
                                     {}, RequestGuard, sc[2])
    /\ regex_patterns = SeededPatterns
    /\ cfg_ops = 0
    /\ last_call = NoCall
    /\ prev_call = NoCall
    /\ guard_type = RequestGuard
    /\ presidio \in BOOLEAN
    /\ pc = "request"
    /\ regex_entities = <<>>
    /\ ner_entities = <<>>
    /\ ner_calls = {}
    /\ other_part = <<>>
    /\ merged_other = <<>>
    /\ final_entities = <<>>
    /\ MaskResultsIdle
    /\ ApiIdle
    /\ RunIdle

\* a statistical model finds one more span in the text
ModelAnswers ==
    /\ pc = "request"
    /\ Cardinality(answers \ RegexFacts(text)) < MaxHits
    /\ \E h \in ModelPool(text) \ answers : answers' = answers \cup {h}
    /\ UNCHANGED <<guard_type, presidio, regex_entities, ner_entities, ner_calls,
                   other_part, merged_other, final_entities>>
    /\ UNCHANGED cfgVars
    /\ UNCHANGED maskVars
    /\ UNCHANGED <<apiVars, runVars>>

\* entities = self.detect(text, guard_type)
Detect ==
    /\ pc = "request"
    /\ LET r == detect(text,
                       get_pii_fields(guard_types, pii_fields, regex_patterns, guard_type),
                       answers \cup {FailureMark(det) : det \in failed}, presidio)
       IN  /\ regex_entities' = r.regex_entities
           /\ ner_entities' = r.ner_entities
           /\ ner_calls' = r.ner_calls
           /\ other_part' = r.other_part
           /\ merged_other' = r.merged_other
           /\ final_entities' = r.final_entities
    /\ pc' = "detected"
    /\ UNCHANGED <<guard_type, presidio, answers>>
    /\ UNCHANGED cfgVars
    /\ UNCHANGED <<text, cands, selected, masked_text, token_map, unmasked,
                   calls, prev_masked, prev_map, issued>>
    /\ UNCHANGED <<apiVars, runVars>>

NextDetect == ModelAnswers \/ Detect

SpecDetect == InitDetect /\ [][NextDetect]_vars

Detected == pc = "detected"
ActiveFields == get_pii_fields(guard_types, pii_fields, regex_patterns, guard_type)

-----------------------------------------------------------------------------
\* Claims on the detection pipeline (checked under SpecDetect)

SpanOf(e) == <<e.start, e.end>>
SpansOfList(entities) == {SpanOf(entities[i]) : i \in 1..Len(entities)}

\* every entity handed to _merge_entities is name-like and any two of them do
\* not overlap, or are the same finding reported for two fields
NamesOnly ==
    /\ \A i \in 1..Len(other_part) : other_part[i].type \in {"name", "full_name", "firstname"}
    /\ \A i, j \in 1..Len(other_part) :
          \/ other_part[i].end <= other_part[j].start
          \/ other_part[j].end <= other_part[i].start
          \/ /\ SpanOf(other_part[i]) = SpanOf(other_part[j])
             /\ other_part[i].confidence = other_part[j].confidence

\* a is followed by b with no other span in between
Consecutive(a, b) ==
    /\ a[2] <= b[1]
    /\ ~\E c \in SpansOfList(other_part) : c # a /\ c # b /\ a[2] <= c[1] /\ c[2] <= b[1]

Covering(a, b) == {e \in Range(merged_other) : e.start <= a[1] /\ e.end >= b[2]}

-----------------------------------------------------------------------------
\* The security-code guard of the regex step

\* the guard type has a field 'cvv' whose pattern is the bare \d{3,4}
BareCvvField ==
    \E f \in Range(ActiveFields) : f.field_name = "cvv" /\ f.pattern = BareCvvPattern

CvvEntities == SelectSeq(regex_entities, LAMBDA e : e.type = "cvv")

\* a trigger word lies entirely within the 40 characters before offset s
TriggerBefore(s) ==
    \E w \in CvvKeywords :
        \E k \in Max(0, s - 40)..(s - Len(w)) : PySlice(lower(text), k, k + Len(w)) = w

CodeIs1999 == CvvText(Str(<<"c", "o", "d", "e">>), 0, Str(<<"1", "9", "9", "9">>), <<>>)
CvvIs381 == CvvText(Str(<<"c", "v", "v">>), 0, Str(<<"3", "8", "1">>), <<>>)

\* C6: with a field 'cvv' on the bare pattern \d{3,4}, the regex step emits a
\* security-code entity only for a match that touches no digit on either side
\* and has a trigger word (cvv, cvc, sécurité as in "code de sécurité") in the
\* 40 characters before it; "mon code est 1999" gives no security-code entity
\* and "mon cvv est 381" gives exactly one, on "381".
C6_CvvGuard ==
    (Detected /\ BareCvvField) =>
        /\ \A i \in 1..Len(CvvEntities) :
              LET s == CvvEntities[i].start
                  e == CvvEntities[i].end
              IN  /\ s = 0 \/ ~isdigit(text[s])
                  /\ e = Len(text) \/ ~isdigit(text[e + 1])
                  /\ TriggerBefore(s)
        /\ text = CodeIs1999 => CvvEntities = <<>>
        /\ text = CvvIs381 =>
              /\ Len(CvvEntities) = 1
              /\ SpanOf(CvvEntities[1]) = <<12, 15>>
              /\ CvvEntities[1].text = Str(<<"3", "8", "1">>)
              /\ CvvEntities[1].confidence = 90

\* "mon cvv est 381" has been scanned with the bare pattern and 381 was emitted
C6_Witness ==
    /\ Detected
    /\ BareCvvField
    /\ text = CvvIs381
    /\ Len(CvvEntities) = 1

-----------------------------------------------------------------------------
\* The list returned by detect

\* C8: the list returned by detect is sorted ascending by start, and its
\* [start, end) intervals are non-empty and pairwise disjoint.
C8_SortedDisjoint ==
    Detected =>
        /\ \A i \in 1..Len(final_entities) : final_entities[i].start < final_entities[i].end
        /\ \A i, j \in 1..Len(final_entities) :
              i < j => final_entities[i].end <= final_entities[j].start

-----------------------------------------------------------------------------
\* The detection mode of a field

RegexEntitiesOfType(name) == SelectSeq(regex_entities, LAMBDA e : e.type = name)

\* C9: for every active field of the guard type, detect runs the field's pattern
\* when the mode is regex or hybrid, giving one entity per match with the regex
\* source and confidence 0.9, and calls the NER analyzer with the field's
\* canonical entity type when the mode is ner or hybrid. (The matches of a
\* security-code field are filtered further and are left out here.)
C9_DetectionModes ==
    (Detected /\ presidio) =>
        \A f \in Range(ActiveFields) :
            /\ (f.detection_type \in {"regex", "hybrid"} /\ f.pattern # None
                    /\ f.field_name # "cvv") =>
                  LET matches == finditer(f.pattern, text, answers)
                      found == RegexEntitiesOfType(f.field_name)
                  IN  /\ Len(found) = Len(matches)
                      /\ \A i \in 1..Len(found) :
                            /\ found[i].start = matches[i].start
                            /\ found[i].end = matches[i].end
                            /\ found[i].source = "regex_db"
                            /\ found[i].confidence = 90
            /\ (f.detection_type \in {"ner", "hybrid"} /\ f.ner_entity_type # None) =>
                  \E c \in ner_calls :
                      c[1] = f.field_name /\ c[2] = entity_mapping(f.ner_entity_type)

-----------------------------------------------------------------------------
\* Entity labels (entity_mapping.py)

\* str.upper
upper(s) == [i \in 1..Len(s) |-> UpperChar(s[i])]

\* str.replace("-", "_")
replace_dash(s) == [i \in 1..Len(s) |-> IF s[i] = Chr("-") THEN Chr("_") ELSE s[i]]

\* CANONICAL_ENTITIES, _SYNONYM_MAPPING: the labels the model spells
CANONICAL_ENTITIES == { Str(<<"P", "E", "R", "S", "O", "N">>), Str(<<"E", "M", "A", "I", "L", "_", "A", "D", "D", "R", "E", "S", "S">>) }
SYNONYM_MAPPING ==
    { <<Str(<<"P", "E", "R">>), Str(<<"P", "E", "R", "S", "O", "N">>)>>, <<Str(<<"N", "O", "M">>), Str(<<"P", "E", "R", "S", "O", "N">>)>>, <<Str(<<"E", "M", "A", "I", "L">>), Str(<<"E", "M", "A", "I", "L", "_", "A", "D", "D", "R", "E", "S", "S">>)>>,
      <<Str(<<"M", "A", "I", "L">>), Str(<<"E", "M", "A", "I", "L", "_", "A", "D", "D", "R", "E", "S", "S">>)>>, <<Str(<<"E", "_", "M", "A", "I", "L">>), Str(<<"E", "M", "A", "I", "L", "_", "A", "D", "D", "R", "E", "S", "S">>)>>, <<Str(<<"P", "R", "E", "N", "O", "M">>), Str(<<"P", "E", "R", "S", "O", "N">>)>> }
ENTITY_MAPPING == {<<c, c>> : c \in CANONICAL_ENTITIES} \cup SYNONYM_MAPPING
MappingKeys == {m[1] : m \in ENTITY_MAPPING}
MappingGet(key) == (CHOOSE m \in ENTITY_MAPPING : m[1] = key)[2]

\* the normalisation without the replacement of dashes
normalize_keeping_dash(label) == upper(strip(label))

\* key = label.strip().upper().replace("-", "_")
normalize(label) == replace_dash(upper(strip(label)))

\* canonicalize_entity(label) -> (canonical_label, is_valid)
canonicalize_entity(label) ==
    IF label = <<>> THEN [label |-> <<>>, valid |-> FALSE]
    ELSE LET key == normalize(label)
         IN  [label |-> IF key \in MappingKeys THEN MappingGet(key) ELSE key,
              valid |-> key \in MappingKeys]

\* the labels callers send
Labels ==
    { Str(<<"P", "E", "R", "S", "O", "N">>), Str(<<"p", "e", "r">>), Str(<<" ", "E", "-", "m", "a", "i", "l", " ">>),
      Str(<<"f", "o", "o">>), Str(<<" ", "p", "e", "r", "-", "s", "o", "n">>), <<>> }

\* the text of a canonical label, as the column ner_entity_type holds it
ColumnText(label) ==
    IF label = <<>> THEN None
    ELSE IF label = Str(<<"P", "E", "R", "S", "O", "N">>) THEN "PERSON"
    ELSE IF label = Str(<<"E", "M", "A", "I", "L", "_", "A", "D", "D", "R", "E", "S", "S">>) THEN "EMAIL_ADDRESS"
    ELSE "?"


-----------------------------------------------------------------------------
\* Regex patterns and the compiled cache (dynamic_config_loader.py, db_manager.py)

MaxApiOps == 3

\* an expression re.compile rejects
BrokenPattern == "("
\* a compiler that accepts every expression
Compiles_anything(pattern) == TRUE
\* a compiler that rejects every expression
Compiles_nothing(pattern) == FALSE
\* re.compile(pattern) does not raise re.error
Compiles(pattern) == pattern # BrokenPattern

\* DatabaseManager.create_regex_pattern: a plain INSERT; regex_patterns.name is UNIQUE
create_regex_pattern(rps, name, pattern) ==
    IF \E r \in rps : r.name = name
    THEN [regex_patterns |-> rps, ret |-> Ret("IntegrityError", 0)]
    ELSE [regex_patterns |-> rps \cup {PatternRow(lastrowid(rps), name, pattern)},
          ret |-> Ret("ok", lastrowid(rps))]

\* DynamicConfigLoader._load_patterns_cache, run to its end: the active rows
\* that compile, by name
load_patterns_cache(rps) ==
    {<<r.name, r.pattern>> : r \in {x \in rps : x.is_active /\ Compiles(x.pattern)}}

\* DynamicConfigLoader.get_compiled_pattern: dict.get(pattern_name)
get_compiled_pattern(cache, name) ==
    IF \E c \in cache : c[1] = name THEN (CHOOSE c \in cache : c[1] = name)[2] ELSE None

\* DynamicConfigLoader.create_regex_pattern: the expression is compiled first,
\* the row is inserted, then the cache is reloaded
loader_create_regex_pattern(rps, cache, name, pattern) ==
    IF ~Compiles(pattern)
    THEN [regex_patterns |-> rps, cache |-> cache, ret |-> Ret("failure", 0)]
    ELSE LET r == create_regex_pattern(rps, name, pattern)
         IN  IF r.ret.status = "ok"
             THEN [regex_patterns |-> r.regex_patterns,
                   cache |-> load_patterns_cache(r.regex_patterns), ret |-> r.ret]
             ELSE [regex_patterns |-> rps, cache |-> cache, ret |-> Ret("failure", 0)]

\* the route POST /guard-types/{guard_name}/fields without the validity test
api_create_pii_field_unvalidated(gts, pfs, g, body) ==
    LET c == canonicalize_entity(body.ner_entity_type)
        r == loader_create_pii_field(gts, pfs, g,
                 FieldArgs(body.field_name, body.type, body.pattern, ColumnText(c.label)))
    IN  [pii_fields |-> r.pii_fields,
         status |-> IF r.ret.status = "ok" THEN 200 ELSE 400,
         id |-> r.ret.id, canonical |-> c.label, valid |-> c.valid]

\* config_api.create_pii_field: POST /guard-types/{guard_name}/fields
api_create_pii_field(gts, pfs, g, body) ==
    LET rejected == [pii_fields |-> pfs, status |-> 400, id |-> 0,
                     canonical |-> <<>>, valid |-> FALSE]
        c == canonicalize_entity(body.ner_entity_type)
        label == IF body.type \in {"ner", "hybrid"} THEN c.label ELSE body.ner_entity_type
        r == loader_create_pii_field(gts, pfs, g,
                 FieldArgs(body.field_name, body.type, body.pattern, ColumnText(label)))
    IN  IF body.type \in {"regex", "hybrid"} /\ body.pattern = None THEN rejected
        ELSE IF body.type \in {"ner", "hybrid"} /\ body.ner_entity_type = <<>> THEN rejected
        ELSE IF body.type \in {"ner", "hybrid"} /\ ~c.valid
        THEN [rejected EXCEPT !.canonical = c.label]
        ELSE [pii_fields |-> r.pii_fields,
              status |-> IF r.ret.status = "ok" THEN 200 ELSE 400,
              id |-> r.ret.id,
              canonical |-> IF body.type \in {"ner", "hybrid"} THEN c.label ELSE <<>>,
              valid |-> body.type \in {"ner", "hybrid"}]

\* DEFAULT_PATTERNS and DEFAULT_GUARDS: the entries the model uses
DEFAULT_PATTERNS ==
    << <<"email", "[A-Za-z0-9._%+-]+@[A-Za-z0-9.-]+\\.[A-Za-z]{2,}">>,
       <<"french_phone", "(?:\\+33\\s?|0)[1-9](?:[ .-]?\\d{2}){4}">>,
       <<"cvv_3_4", "\\b\\d{3,4}\\b">> >>
DEFAULT_GUARDS ==
    << [name |-> "TypeA", fields |-> <<FieldArgs("name", "ner", None, "PERSON")>>],
       [name |-> "TypeB", fields |-> <<FieldArgs("cvv", "regex", "cvv_3_4", None)>>] >>

\* seed_defaults, the loop over DEFAULT_PATTERNS from entry i on: the names
\* get_regex_patterns did not list are inserted through db_manager
RECURSIVE SeedPatterns(_, _, _)
SeedPatterns(rps, existing_patterns, i) ==
    IF i > Len(DEFAULT_PATTERNS) THEN [regex_patterns |-> rps, ok |-> TRUE]
    ELSE IF DEFAULT_PATTERNS[i][1] \in existing_patterns
    THEN SeedPatterns(rps, existing_patterns, i + 1)
    ELSE LET r == create_regex_pattern(rps, DEFAULT_PATTERNS[i][1], DEFAULT_PATTERNS[i][2])
         IN  IF r.ret.status = "ok"
             THEN SeedPatterns(r.regex_patterns, existing_patterns, i + 1)
             ELSE [regex_patterns |-> rps, ok |-> FALSE]

\* seed_defaults, the fields of one guard: a failing insert is skipped
RECURSIVE SeedGuardFields(_, _, _, _, _)
SeedGuardFields(gts, pfs, g, fields, j) ==
    IF j > Len(fields) THEN pfs
    ELSE SeedGuardFields(gts, create_pii_field(gts, pfs, g, fields[j]).pii_fields, g, fields, j + 1)

\* seed_defaults, the loop over DEFAULT_GUARDS from entry i on
RECURSIVE SeedGuards(_, _, _, _)
SeedGuards(gts, pfs, existing_guards, i) ==
    IF i > Len(DEFAULT_GUARDS) THEN [guard_types |-> gts, pii_fields |-> pfs, ok |-> TRUE]
    ELSE LET g == DEFAULT_GUARDS[i]
             r == create_guard_type(gts, g.name)
             made == IF g.name \in existing_guards THEN gts ELSE r.guard_types
         IN  IF g.name \notin existing_guards /\ r.ret.status # "ok"
             THEN [guard_types |-> gts, pii_fields |-> pfs, ok |-> FALSE]
             ELSE SeedGuards(made, SeedGuardFields(made, pfs, g.name, g.fields, 1),
                             existing_guards, i + 1)

\* seed_defaults (the path through db_manager): every insert is committed on
\* its own, so a failure keeps what was written before it
seed_defaults(gts, pfs, rps) ==
    LET p == SeedPatterns(rps, {r.name : r \in {x \in rps : x.is_active}}, 1)
        g == SeedGuards(gts, pfs, {r.name : r \in {x \in gts : x.is_active}}, 1)
    IN  IF ~p.ok
        THEN [guard_types |-> gts, pii_fields |-> pfs, regex_patterns |-> p.regex_patterns,
              success |-> FALSE]
        ELSE [guard_types |-> g.guard_types, pii_fields |-> g.pii_fields,
              regex_patterns |-> p.regex_patterns, success |-> g.ok]

-----------------------------------------------------------------------------
\* The configuration API (config_api.py)

Request(op, g, name, type, pattern, label) ==
    [op |-> op, guard |-> g, name |-> name, type |-> type, pattern |-> pattern,
     label |-> label]
Response(status, id, canonical, valid) ==
    [status |-> status, id |-> id, canonical |-> canonical, valid |-> valid]

\* the bodies callers POST to /guard-types/{guard_name}/fields
FieldBody(f, type, pat, label) ==
    [field_name |-> f, type |-> type, pattern |-> pat, ner_entity_type |-> label]
FieldBodies ==
    {FieldBody("name", "ner", None, l) : l \in Labels}
        \cup {FieldBody("phone", "hybrid", "french_phone", l) : l \in Labels}
        \cup {FieldBody("phone", "hybrid", None, Str(<<"P", "E", "R", "S", "O", "N">>)),
              FieldBody("email", "regex", "email", <<>>)}

\* the bodies callers POST to /regex-patterns
PatternBodies == {"custom", "email"} \X {"\\d+", BrokenPattern}

\* the module instance dynamic_config_loader is built at import: its cache is
\* loaded from the store as the process finds it
InitApi ==
    /\ guard_types = {}
    /\ pii_fields = {}
    /\ regex_patterns \in {{}, SeededPatterns}
    /\ compiled_cache = load_patterns_cache(regex_patterns)
    /\ cfg_ops = 0
    /\ last_call = NoCall
    /\ prev_call = NoCall
    /\ request = NoRequest
    /\ response = NoRequest
    /\ reload_pc = "idle"
    /\ reload_rows = <<>>
    /\ old_cache = {}
    /\ observed = {}
    /\ MaskIdle
    /\ DetIdle
    /\ RunIdle

ApiServed(req, resp) ==
    /\ cfg_ops < MaxApiOps
    /\ cfg_ops' = cfg_ops + 1
    /\ request' = req
    /\ response' = resp
    /\ UNCHANGED <<last_call, prev_call, reload_pc, reload_rows, old_cache, observed>>
    /\ UNCHANGED <<maskVars, detVars, runVars>>

\* POST /guard-types
PostGuardType ==
    \E name \in GuardNames :
        LET r == create_guard_type(guard_types, name)
        IN  /\ guard_types' = r.guard_types
            /\ UNCHANGED <<pii_fields, regex_patterns, compiled_cache>>
            /\ ApiServed(Request("create_guard_type", name, "", "", None, <<>>),
                         Response(IF r.ret.status = "ok" THEN 200 ELSE 400, r.ret.id, <<>>, FALSE))

\* POST /guard-types/{guard_name}/fields
PostPiiField ==
    \E g \in GuardNames, body \in FieldBodies :
        LET r == api_create_pii_field(guard_types, pii_fields, g, body)
        IN  /\ pii_fields' = r.pii_fields
            /\ UNCHANGED <<guard_types, regex_patterns, compiled_cache>>
            /\ ApiServed(Request("create_pii_field", g, body.field_name, body.type,
                                 body.pattern, body.ner_entity_type),
                         Response(r.status, r.id, r.canonical, r.valid))

\* POST /regex-patterns
PostRegexPattern ==
    \E body \in PatternBodies :
        LET r == loader_create_regex_pattern(regex_patterns, compiled_cache, body[1], body[2])
        IN  /\ regex_patterns' = r.regex_patterns
            /\ compiled_cache' = r.cache
            /\ UNCHANGED <<guard_types, pii_fields>>
            /\ ApiServed(Request("create_regex_pattern", "", body[1], "", body[2], <<>>),
                         Response(IF r.ret.status = "ok" THEN 200 ELSE 400, r.ret.id, <<>>, FALSE))

\* POST /seed-defaults, and the startup hook of main.py
PostSeedDefaults ==
    LET r == seed_defaults(guard_types, pii_fields, regex_patterns)
    IN  /\ guard_types' = r.guard_types
        /\ pii_fields' = r.pii_fields
        /\ regex_patterns' = r.regex_patterns
        /\ UNCHANGED compiled_cache
        /\ ApiServed(Request("seed_defaults", "", "", "", None, <<>>),
                     Response(IF r.success THEN 200 ELSE 500, 0, <<>>, FALSE))

\* POST /reload: reload_patterns_cache
PostReload ==
    /\ compiled_cache' = load_patterns_cache(regex_patterns)
    /\ UNCHANGED <<guard_types, pii_fields, regex_patterns>>
    /\ ApiServed(Request("reload", "", "", "", None, <<>>), Response(200, 0, <<>>, FALSE))

NextApi ==
    PostGuardType \/ PostPiiField \/ PostRegexPattern \/ PostSeedDefaults \/ PostReload

SpecApi == InitApi /\ [][NextApi]_vars

-----------------------------------------------------------------------------
\* Claims on the configuration API (checked under SpecApi)

\* the step that serves a POST of a ner or hybrid field
PostedNerField ==
    /\ cfg_ops' # cfg_ops
    /\ request'.op = "create_pii_field"
    /\ request'.type \in {"ner", "hybrid"}

\* C11: a POST of a field of type ner or hybrid whose entity type
\* canonicalize_entity does not recognise is answered with an error and leaves
\* pii_fields as it was; when the type is recognised, the row the request
\* inserts carries the canonical label.
C11_EntityTypeValidated ==
    [][PostedNerField =>
        LET c == canonicalize_entity(request'.label)
        IN  /\ ~c.valid => response'.status = 400 /\ pii_fields' = pii_fields
            /\ c.valid => /\ c.label \in CANONICAL_ENTITIES
                          /\ \A r \in pii_fields' \ pii_fields :
                                 r.ner_entity_type = ColumnText(c.label)]_vars

\* a synonym was posted and the row of the answer holds the canonical label
C11_Witness ==
    /\ request.op = "create_pii_field"
    /\ request.type \in {"ner", "hybrid"}
    /\ request.label \notin CANONICAL_ENTITIES
    /\ response.status = 200
    /\ response.canonical \in CANONICAL_ENTITIES
    /\ \E r \in pii_fields : /\ r.id = response.id
                             /\ r.field_name = request.name
                             /\ r.ner_entity_type = ColumnText(response.canonical)

\* the step that serves a POST of an expression that does not compile
PostedBrokenPattern ==
    /\ cfg_ops' # cfg_ops
    /\ request'.op = "create_regex_pattern"
    /\ request'.pattern = BrokenPattern

\* C12: a POST of a regex pattern whose expression does not compile is answered
\* with a failure, adds no row to regex_patterns and leaves the compiled cache
\* as it was.
C12_InvalidPatternRejected ==
    [][PostedBrokenPattern =>
        /\ response'.status = 400
        /\ regex_patterns' = regex_patterns
        /\ compiled_cache' = compiled_cache]_vars

\* a broken expression was refused while the store and the cache hold patterns
C12_Witness ==
    /\ request.op = "create_regex_pattern"
    /\ request.pattern = BrokenPattern
    /\ response.status = 400
    /\ regex_patterns # {}
    /\ compiled_cache # {}
    /\ \A r \in regex_patterns : r.pattern # BrokenPattern

\* the last request made the route call canonicalize_entity
Canonicalized ==
    /\ request.op = "create_pii_field"
    /\ request.type \in {"ner", "hybrid"}
    /\ request.label # <<>>
    /\ request.type = "hybrid" => request.pattern # None

\* the lookup key: the label trimmed, uppercased, '-' replaced by '_'
LookupKey(label) == replace_dash(upper(strip(label)))

\* what canonicalize_entity answers for a known label
KnownLabelAnswer ==
    LookupKey(request.label) \in MappingKeys =>
        /\ response.valid
        /\ response.canonical = MappingGet(LookupKey(request.label))
        /\ response.canonical \in CANONICAL_ENTITIES
        /\ MappingGet(response.canonical) = response.canonical

\* C15 as stated: an unknown label comes back unchanged with is_known = false;
\* a known label gives its canonical type with is_known = true, and canonical
\* labels map to themselves.
C15_UnknownLabelUnchanged ==
    Canonicalized =>
        /\ KnownLabelAnswer
        /\ LookupKey(request.label) \notin MappingKeys =>
               ~response.valid /\ response.canonical = request.label

\* C15, amended: an unknown label comes back as its lookup key (trimmed,
\* uppercased, '-' replaced by '_') with is_known = false; a known label gives
\* its canonical type with is_known = true, and canonical labels map to
\* themselves.
C15_UnknownLabelNormalised ==
    Canonicalized =>
        /\ KnownLabelAnswer
        /\ LookupKey(request.label) \notin MappingKeys =>
               ~response.valid /\ response.canonical = LookupKey(request.label)

\* an unknown label came back changed
C15_Witness ==
    /\ Canonicalized
    /\ LookupKey(request.label) \notin MappingKeys
    /\ ~response.valid
    /\ response.canonical # request.label

\* the names the store or the cache knows
PatternNames == {r.name : r \in regex_patterns} \cup {c[1] : c \in compiled_cache}

\* C16: once a mutation has returned, get_compiled_pattern(name) yields a
\* pattern if and only if name is an active RegexPattern of the store that
\* compiles.
C16_CacheMatchesStore ==
    \A name \in PatternNames :
        get_compiled_pattern(compiled_cache, name) # None
            <=> \E r \in regex_patterns : r.name = name /\ r.is_active /\ Compiles(r.pattern)

-----------------------------------------------------------------------------
\* The tokenization engine on what detectors can hand over (guard_service.py):
\* generate_tokens takes any list of dicts; nothing on the way from detect()
\* checks a span against the text, and one finding can be reported for two
\* fields of the guard type

\* spans that leave the text
MalformedSpans(txt) == {<<0 - 1, 1>>, <<0, Len(txt) + 1>>, <<Len(txt), Len(txt) + 2>>}

\* Inputs: model findings with a span inside the text, reported for the field
\* name or for the field firstname, and findings whose span leaves the text
ReportedPool(txt) ==
    {Ent(sp[1], sp[2], PySlice(txt, sp[1], sp[2]), f, "ner_configured_fr", 99, TRUE) :
        sp \in SpansOf(txt), f \in {"name", "firstname"}}
    \cup {Ent(sp[1], sp[2], PySlice(txt, sp[1], sp[2]), "name", "ner_configured_fr", 99, TRUE) :
        sp \in MalformedSpans(txt)}

OutOfBounds(e, txt) == e.start < 0 \/ e.end > Len(txt)

\* a detector result is appended to the entity list
AddReportedEntity ==
    /\ pc = "collect"
    /\ Len(cands) < MaxCands
    /\ \E e \in ReportedPool(text) : cands' = Append(cands, e)
    /\ UNCHANGED <<text, pc, selected, masked_text, token_map, unmasked,
                   calls, prev_masked, prev_map, issued>>
    /\ UNCHANGED nonMaskVars

NextEntities == AddReportedEntity \/ GenerateTokens \/ Unmask \/ GenerateTokensAgain

SpecEntities == InitMask /\ [][NextEntities]_vars

-----------------------------------------------------------------------------
\* Claims on the tokenization engine (checked under SpecEntities)

\* generate_tokens has returned a masked text
Returned == pc \in {"masked", "unmasked", "remasked"}

\* C13: when an entity handed to generate_tokens has a span out of bounds for
\* the text (start < 0 or end > len(text)), generate_tokens does not return a
\* masked text: it fails.
C13_MalformedSpanRejected ==
    (\E i \in 1..Len(cands) : IsValidEntity(cands[i]) /\ OutOfBounds(cands[i], text))
        => ~Returned

\* the orders of a list
Perms(n) == {p \in [1..n -> 1..n] : \A i, j \in 1..n : p[i] = p[j] => i = j}
Permuted(s, p) == [i \in 1..Len(s) |-> s[p[i]]]

\* C17: unmask gives the same string whatever the order in which the
\* (token, original) pairs of the token map are applied.
C17_UnmaskOrderIrrelevant ==
    pc = "masked" =>
        \A p \in Perms(Len(token_map)) :
            unmask(masked_text, Permuted(token_map, p)) = unmask(masked_text, token_map)

\* C18: generate_tokens gives the same selected entities, masked text and token
\* map for every order of arrival of the same candidates.
C18_ArrivalOrderIrrelevant ==
    pc = "masked" =>
        \A p \in Perms(Len(cands)) :
            LET r == generate_tokens(SecretKey, text, Permuted(cands, p))
            IN  /\ r.selected = selected
                /\ r.masked_text = masked_text
                /\ r.tokens = token_map

-----------------------------------------------------------------------------
\* Requests served while detectors fail (pii_detector_french.py, guard_service.py)

Detectors == {"presidio_fr", "presidio_en", "camembert", "bert"}

\* what the statistical models may return for NameText in these requests
FailurePool ==
    { Hit("presidio_fr", "PERSON", 0, 5, 85),      \* Marie
      Hit("presidio_fr", "PERSON", 6, 12, 85),     \* Dubois
      Hit("presidio_en", "PERSON", 0, 5, 85),
      Hit("presidio_fr", "PHONE_NUMBER", 33, 43, 85),
      Hit("camembert", "PER", 17, 23, 70),         \* Durand
      Hit("bert", "PER", 0, 5, 0) }

InitFailures ==
    /\ \E config \in NameConfigs :
          /\ text = NameText
          /\ answers = RegexFacts(NameText)
          /\ guard_types = create_guard_type({}, RequestGuard).guard_types
          /\ pii_fields = SeedFields(create_guard_type({}, RequestGuard).guard_types,
                                     {}, RequestGuard, config)
    /\ regex_patterns = SeededPatterns
    /\ cfg_ops = 0
    /\ last_call = NoCall
    /\ prev_call = NoCall
    /\ guard_type = RequestGuard
    /\ presidio \in BOOLEAN
    /\ failed \in SUBSET Detectors
    /\ pc = "request"
    /\ regex_entities = <<>>
    /\ ner_entities = <<>>
    /\ ner_calls = {}
    /\ other_part = <<>>
    /\ merged_other = <<>>
    /\ final_entities = <<>>
    /\ det_pc = "idle"
    /\ reads = <<>>
    /\ llm_calls = <<>>
    /\ MaskResultsIdle
    /\ ApiIdle

\* a statistical model would find one more span in the text
DetectorAnswers ==
    /\ pc = "request"
    /\ Cardinality(answers \ RegexFacts(text)) < MaxHits
    /\ \E h \in FailurePool \ answers : answers' = answers \cup {h}
    /\ UNCHANGED <<guard_type, presidio, regex_entities, ner_entities, ner_calls,
                   other_part, merged_other, final_entities>>
    /\ UNCHANGED cfgVars
    /\ UNCHANGED maskVars
    /\ UNCHANGED <<apiVars, runVars>>

\* GuardService.process after detect: get_guard_types fetches the field
\* definitions for the allowed-types filter, then generate_tokens
MaskDetected ==
    /\ pc = "detected"
    /\ LET allowed_types == Range(get_guard_types(guard_types, pii_fields, regex_patterns,
                                                  guard_type))
           entities == SelectSeq(final_entities, LAMBDA e : e.type \in allowed_types)
           r == generate_tokens(SecretKey, text, entities)
       IN  IF allowed_types = {}
           THEN /\ pc' = "error"
                /\ UNCHANGED <<cands, selected, masked_text, token_map, issued, calls>>
           ELSE /\ pc' = "masked"
                /\ cands' = entities
                /\ selected' = r.selected
                /\ masked_text' = r.masked_text
                /\ token_map' = r.tokens
                /\ issued' = issued \cup IssuedBy(r.tokens)
                /\ calls' = calls + 1
    /\ reads' = Append(reads, get_pii_fields(guard_types, pii_fields, regex_patterns,
                                              guard_type))
    /\ UNCHANGED <<text, unmasked, prev_masked, prev_map>>
    /\ UNCHANGED <<det_pc, failed, llm_calls>>
    /\ UNCHANGED <<cfgVars, detVars, apiVars>>

NextFailures == DetectorAnswers \/ Detect \/ MaskDetected

SpecFailures == InitFailures /\ [][NextFailures]_vars

\* the answers of the detectors that have not failed
WorkingAnswers == {h \in answers : h.det \notin failed}

\* C14: when NER or fallback-model detectors fail during detect, detect returns
\* what it returns when those detectors answer nothing: the failure is
\* swallowed, the failed source contributes no candidate, the candidates of the
\* other detectors are kept, and the request is masked.
C14_DetectorFailureSwallowed ==
    /\ pc # "error"
    /\ pc \in {"detected", "masked"} =>
          LET r == detect(text, ActiveFields, WorkingAnswers, presidio)
          IN  /\ regex_entities = r.regex_entities
              /\ ner_entities = r.ner_entities
              /\ other_part = r.other_part
              /\ final_entities = r.final_entities
    /\ pc = "masked" => masked_text # NoResult /\ Len(token_map) = Len(selected)

\* a detector that had something to report failed, another one reported, and
\* the request was masked with the other one's finding
C14_Witness ==
    /\ pc = "masked"
    /\ \E h \in answers : h.det \in failed
    /\ \E h \in answers : h.det \in Detectors \ failed
    /\ presidio
    /\ "presidio_fr" \in failed
    /\ token_map # <<>>
    /\ \E i \in 1..Len(selected) : selected[i].source # "regex_db"

-----------------------------------------------------------------------------
\* Reloading the compiled cache next to its readers (dynamic_config_loader.py).
\* POST /config/reload of main.py is a plain def, which the server runs on a
\* worker thread, while the routes of config_api.py run on the event loop: a
\* reader can run between any two statements of _load_patterns_cache.

\* ORDER BY name
PatternNameOrder == <<"custom", "cvv_3_4", "email", "french_phone">>

\* DatabaseManager.get_regex_patterns: the active rows, by name
get_regex_patterns(rps) ==
    LET act == {r \in rps : r.is_active}
        names == SelectSeq(PatternNameOrder, LAMBDA n : \E r \in act : r.name = n)
    IN  [i \in 1..Len(names) |-> CHOOSE r \in act : r.name = names[i]]

\* the cache _load_patterns_cache ends with when it has fetched `rows`
CacheOf(rows) == {<<r.name, r.pattern>> : r \in {x \in Range(rows) : Compiles(x.pattern)}}

InitReload ==
    /\ guard_types = {}
    /\ pii_fields = {}
    /\ regex_patterns \in {{}, SeededPatterns}
    /\ compiled_cache = load_patterns_cache(regex_patterns)
    /\ cfg_ops = 0
    /\ last_call = NoCall
    /\ prev_call = NoCall
    /\ request = NoRequest
    /\ response = NoRequest
    /\ reload_pc = "idle"
    /\ reload_rows = <<>>
    /\ old_cache = {}
    /\ observed = {}
    /\ MaskIdle
    /\ DetIdle
    /\ RunIdle

\* _load_patterns_cache, lines 24-25: the rows are fetched and the attribute is
\* bound to a new empty dict
ReloadBegin ==
    /\ reload_pc = "idle"
    /\ reload_rows' = get_regex_patterns(regex_patterns)
    /\ old_cache' = compiled_cache
    /\ compiled_cache' = {}
    /\ reload_pc' = "filling"
    /\ UNCHANGED <<request, response, observed>>
    /\ UNCHANGED <<cfgVars, maskVars, detVars, runVars>>

\* _load_patterns_cache, lines 27-45: one turn of the loop
ReloadInsert ==
    /\ reload_pc = "filling"
    /\ reload_rows # <<>>
    /\ compiled_cache' = compiled_cache \cup CacheOf(<<Head(reload_rows)>>)
    /\ reload_rows' = Tail(reload_rows)
    /\ UNCHANGED <<request, response, reload_pc, old_cache, observed>>
    /\ UNCHANGED <<cfgVars, maskVars, detVars, runVars>>

\* reload_patterns_cache returns
ReloadEnd ==
    /\ reload_pc = "filling"
    /\ reload_rows = <<>>
    /\ reload_pc' = "idle"
    /\ UNCHANGED <<request, response, compiled_cache, reload_rows, old_cache, observed>>
    /\ UNCHANGED <<cfgVars, maskVars, detVars, runVars>>

\* get_compiled_pattern(name), as get_detection_config calls it for a field:
\* the reader notes what it got, and what the cache before the reload and the
\* cache the reload is building would have given
GetCompiledPattern ==
    /\ \E name \in Range(PatternNameOrder) :
          observed' = {[name |-> name,
                        pattern |-> get_compiled_pattern(compiled_cache, name),
                        reloading |-> reload_pc = "filling",
                        old |-> get_compiled_pattern(old_cache, name),
                        new |-> get_compiled_pattern(
                                    compiled_cache \cup CacheOf(reload_rows), name)]}
    /\ UNCHANGED <<request, response, compiled_cache, reload_pc, reload_rows, old_cache>>
    /\ UNCHANGED <<cfgVars, maskVars, detVars, runVars>>

NextReload ==
    ReloadBegin \/ ReloadInsert \/ ReloadEnd \/ GetCompiledPattern \/ PostSeedDefaults

SpecReload == InitReload /\ [][NextReload]_vars

\* C19: a reader running while reload_patterns_cache runs gets for every name
\* what the complete old cache or the complete new cache holds for it, never
\* the answer of an empty or partly rebuilt cache.
C19_AtomicSwap ==
    \A o \in observed : o.reloading => o.pattern \in {o.old, o.new}

-----------------------------------------------------------------------------
\* One process() call next to the configuration API (guard_service.py,
\* pii_detector_french.py).  POST /process is a plain def, run on a worker
\* thread; the routes of config_api.py run on the event loop and commit
\* between any two queries of the call.

MaxWrites == 2

\* the queries of one call, in order: _detect_with_regex,
\* _detect_with_ner_for_configured_fields, _augment_with_fallback_models,
\* _heuristic_name_entities; then detect returns and process calls
\* get_guard_types
ReadOrder == <<"regex", "ner", "fallback", "heuristic", "return">>

InitSnapshot ==
    /\ text = NameText
    /\ answers = RegexFacts(NameText) \cup {Hit("presidio_fr", "PERSON", 0, 5, 85)}
    /\ guard_types = create_guard_type({}, RequestGuard).guard_types
    /\ \E config \in NameConfigs :
          pii_fields = SeedFields(create_guard_type({}, RequestGuard).guard_types,
                                  {}, RequestGuard, config)
    /\ regex_patterns = SeededPatterns
    /\ cfg_ops = MaxConfigOps - MaxWrites
    /\ last_call = NoCall
    /\ prev_call = NoCall
    /\ guard_type = RequestGuard
    /\ presidio = TRUE
    /\ pc = "request"
    /\ regex_entities = <<>>
    /\ ner_entities = <<>>
    /\ ner_calls = {}
    /\ other_part = <<>>
    /\ merged_other = <<>>
    /\ final_entities = <<>>
    /\ det_pc = "regex"
    /\ reads = <<>>
    /\ failed = {}
    /\ llm_calls = <<>>
    /\ MaskResultsIdle
    /\ ApiIdle

\* one of the four steps of detect fetches the field definitions
DetectStep ==
    /\ det_pc \in {"regex", "ner", "fallback", "heuristic"}
    /\ reads' = Append(reads, ActiveFields)
    /\ det_pc' = ReadOrder[Len(reads) + 2]
    /\ UNCHANGED <<failed, llm_calls>>
    /\ UNCHANGED <<cfgVars, maskVars, detVars, apiVars>>

\* detect returns what the four steps found
DetectReturn ==
    /\ det_pc = "return"
    /\ pc = "request"
    /\ LET r == detect_reading(text, reads[1], reads[2], reads[3], reads[4],
                               answers \cup {FailureMark(det) : det \in failed}, presidio)
       IN  /\ regex_entities' = r.regex_entities
           /\ ner_entities' = r.ner_entities
           /\ ner_calls' = r.ner_calls
           /\ other_part' = r.other_part
           /\ merged_other' = r.merged_other
           /\ final_entities' = r.final_entities
    /\ pc' = "detected"
    /\ det_pc' = "filter"
    /\ UNCHANGED <<guard_type, presidio, answers, reads, failed, llm_calls>>
    /\ UNCHANGED <<text, cands, selected, masked_text, token_map, unmasked,
                   calls, prev_masked, prev_map, issued>>
    /\ UNCHANGED <<cfgVars, apiVars>>

NextSnapshot ==
    DetectStep \/ DetectReturn \/ MaskDetected \/ CreatePiiField \/ DeletePiiField

SpecSnapshot == InitSnapshot /\ [][NextSnapshot]_vars

\* C20: within one process() call every read of the field definitions of the
\* guard type (regex step, NER step, fallback step, name heuristic,
\* allowed-types filter) returns the same list, whatever configuration writes
\* are served meanwhile.
C20_SnapshotConsistency ==
    \A i, j \in 1..Len(reads) : reads[i] = reads[j]

-----------------------------------------------------------------------------
\* POST /process against the configuration store (main.py:119-125,
\* guard_service.py:15-69): the store is written through the configuration
\* routes and the request names a guard type by its name.

MaxSetupOps == 3

\* the answer of the LLM collaborator: it repeats the prompt, or send_to_llm
\* raises and process falls back on "[Erreur LLM]" (no token in it)
LlmError == Str(<<"[", "E", "r", "r", "e", "u", "r", " ", "L", "L", "M", "]">>)
LlmContents(prompt) == {prompt, LlmError}

InitProcess ==
    /\ guard_types = {}
    /\ pii_fields = {}
    /\ regex_patterns = SeededPatterns
    /\ cfg_ops = MaxConfigOps - MaxSetupOps
    /\ last_call = NoCall
    /\ prev_call = NoCall
    /\ MaskIdle
    /\ DetIdle
    /\ ApiIdle
    /\ RunIdle

\* POST /process: guard_service.process(request.text, request.guard_type) is called
ProcessRequest ==
    /\ pc = "idle"
    /\ \E g \in GuardNames : guard_type' = g
    /\ text' = NameText
    /\ answers' = RegexFacts(NameText) \cup {Hit("presidio_fr", "PERSON", 0, 5, 85)}
    /\ presidio' = TRUE
    /\ pc' = "request"
    /\ UNCHANGED <<regex_entities, ner_entities, ner_calls, other_part, merged_other,
                   final_entities>>
    /\ UNCHANGED <<cands, selected, masked_text, token_map, unmasked,
                   calls, prev_masked, prev_map, issued>>
    /\ UNCHANGED <<cfgVars, apiVars, runVars>>

\* process after generate_tokens: send_to_llm(masked_text), then unmask of the answer
SendToLlm ==
    /\ pc = "masked"
    /\ llm_calls' = Append(llm_calls, masked_text)
    /\ \E llm_content \in LlmContents(masked_text) :
          unmasked' = unmask(llm_content, token_map)
    /\ pc' = "done"
    /\ UNCHANGED <<text, cands, selected, masked_text, token_map,
                   calls, prev_masked, prev_map, issued>>
    /\ UNCHANGED <<det_pc, reads, failed>>
    /\ UNCHANGED <<cfgVars, detVars, apiVars>>

NextProcess ==
    \/ CreateGuardType \/ DeleteGuardType \/ CreatePiiField \/ DeletePiiField
    \/ ProcessRequest \/ Detect \/ MaskDetected \/ SendToLlm

SpecProcess == InitProcess /\ [][NextProcess]_vars

\* the guard type of the request has no active row when process looks it up
LookupMisses == pc = "detected" /\ get_guard_type(guard_types, guard_type) = {}

\* C21: process(text, g) for a guard type g that does not exist or has been
\* deactivated fails with the guard-type error: the lookup step ends in the
\* error, leaves no masked result and sends nothing to the LLM, and nothing
\* follows the error.
C21_LookupMiss ==
    [][/\ LookupMisses =>
            /\ pc' \in {"detected", "error"}
            /\ masked_text' = NoResult
            /\ llm_calls' = llm_calls
       /\ pc = "error" => pc' = "error" /\ llm_calls' = llm_calls]_vars

-----------------------------------------------------------------------------
\* Further claims on the configuration store (checked under SpecConfig)

FieldNames == {a.field_name : a \in FieldInputs}

\* UNIQUE(guard_type_id, field_name): no key has two rows
OneRowPerKey ==
    \A g \in GuardNames, f \in FieldNames : Cardinality(RowsOfKey(g, f)) <= 1

\* C22 (as claimed): whatever creates and deactivations were served, there is
\* at most one row per (guard type, field_name), and create_pii_field for a
\* key of an active guard type that has a row, soft-deleted or not, returns
\* the identifier of that row and no error.
C22_OneRowPerKey ==
    /\ OneRowPerKey
    /\ (/\ last_call.op = "create_pii_field"
        /\ get_guard_type(guard_types, last_call.guard) # {}
        /\ RowsOfKey(last_call.guard, last_call.field) # {})
           => /\ last_call.status = "ok"
              /\ \E r \in RowsOfKey(last_call.guard, last_call.field) : r.id = last_call.id

-----------------------------------------------------------------------------
\* PUT /pii-fields/{field_id} (config_api.py:248-271) next to the creating routes

\* the bodies callers PUT, as the dict field.dict(exclude_none=True): pairs
\* <<column, value>>
UpdateBodies ==
    { {},
      {<<"detection_type", "ner">>},
      {<<"detection_type", "regex">>},
      {<<"ner_entity_type", ColumnText(Str(<<"P", "E", "R", "S", "O", "N">>))>>},
      {<<"ner_entity_type", ColumnText(Str(<<"f", "o", "o">>))>>},
      {<<"detection_type", "hybrid">>, <<"regex_pattern", "email">>} }

\* kwargs.get(column, old)
Updated(kwargs, column, old) ==
    IF \E kv \in kwargs : kv[1] = column
    THEN (CHOOSE kv \in kwargs : kv[1] = column)[2]
    ELSE old

\* DatabaseManager.update_pii_field: UPDATE pii_fields SET ... WHERE id = ?
update_pii_field(pfs, id, kwargs) ==
    IF kwargs = {} THEN [pii_fields |-> pfs, ret |-> FALSE]
    ELSE [pii_fields |->
              {IF r.id # id THEN r
               ELSE [r EXCEPT !.detection_type = Updated(kwargs, "detection_type", @),
                              !.regex_pattern = Updated(kwargs, "regex_pattern", @),
                              !.ner_entity_type = Updated(kwargs, "ner_entity_type", @)]
                 : r \in pfs},
          ret |-> \E r \in pfs : r.id = id]

\* config_api.update_pii_field through DynamicConfigLoader.update_pii_field
api_update_pii_field(pfs, id, body) ==
    LET r == update_pii_field(pfs, id, body)
    IN  IF body = {} THEN [pii_fields |-> pfs, status |-> 400]
        ELSE [pii_fields |-> r.pii_fields, status |-> IF r.ret THEN 200 ELSE 400]

InitUpdate ==
    /\ guard_types = {}
    /\ pii_fields = {}
    /\ regex_patterns = SeededPatterns
    /\ compiled_cache = load_patterns_cache(SeededPatterns)
    /\ cfg_ops = 0
    /\ last_call = NoCall
    /\ prev_call = NoCall
    /\ request = NoRequest
    /\ response = NoRequest
    /\ reload_pc = "idle"
    /\ reload_rows = <<>>
    /\ old_cache = {}
    /\ observed = {}
    /\ MaskIdle
    /\ DetIdle
    /\ RunIdle

\* PUT /pii-fields/{field_id}
PutPiiField ==
    \E id \in {r.id : r \in pii_fields} \cup {lastrowid(pii_fields)}, body \in UpdateBodies :
        LET r == api_update_pii_field(pii_fields, id, body)
        IN  /\ pii_fields' = r.pii_fields
            /\ UNCHANGED <<guard_types, regex_patterns, compiled_cache>>
            /\ ApiServed(Request("update_pii_field", "", "", Updated(body, "detection_type", ""),
                                 Updated(body, "regex_pattern", None), <<>>),
                         Response(r.status, id, <<>>, FALSE))

NextUpdate == PostGuardType \/ PostPiiField \/ PutPiiField

SpecUpdate == InitUpdate /\ [][NextUpdate]_vars

\* the column holds a label canonicalize_entity knows
KnownEntityType(column) == column \in {ColumnText(c) : c \in CANONICAL_ENTITIES}

\* the field definition is one a validated create accepts
ValidField(r) ==
    /\ r.detection_type \in {"ner", "hybrid"} => KnownEntityType(r.ner_entity_type)
    /\ r.detection_type \in {"regex", "hybrid"} => r.regex_pattern # None

\* C23 (as claimed): whatever creates and updates the configuration API has
\* served, every active field of mode ner or hybrid has an entity type the
\* canonicalizer knows and every active field of mode regex or hybrid has a
\* pattern.
C23_ValidConfiguration ==
    \A r \in pii_fields : r.is_active => ValidField(r)

-----------------------------------------------------------------------------
\* Requests to a guard type of identity documents, or of first names only
\* (pii_detector_french.py:86-127, then the allowed-types filter of
\* guard_service.py:21-30)

\* one expression configured for two fields: ten digits
DocPattern == "\\b\\d{10}\\b"

\* the field lists of the guard type of the request
DocConfigs ==
    { <<FieldArgs("id_card", "regex", DocPattern, None),
        FieldArgs("passport", "regex", DocPattern, None)>>,
      <<FieldArgs("id_card", "regex", DocPattern, None),
        FieldArgs("name", "ner", None, "PERSON")>>,
      <<FieldArgs("firstname", "ner", None, "PERSON")>>,
      <<FieldArgs("email", "regex", "email", None),
        FieldArgs("name", "ner", None, "PERSON")>> }

InitDocs ==
    /\ \E config \in DocConfigs :
          /\ text = NameText
          /\ answers = RegexFacts(NameText) \cup {Hit("regex", DocPattern, 33, 43, 0)}
          /\ guard_types = create_guard_type({}, RequestGuard).guard_types
          /\ pii_fields = SeedFields(create_guard_type({}, RequestGuard).guard_types,
                                     {}, RequestGuard, config)
    /\ regex_patterns = SeededPatterns
    /\ cfg_ops = 0
    /\ last_call = NoCall
    /\ prev_call = NoCall
    /\ guard_type = RequestGuard
    /\ presidio \in BOOLEAN
    /\ pc = "request"
    /\ regex_entities = <<>>
    /\ ner_entities = <<>>
    /\ ner_calls = {}
    /\ other_part = <<>>
    /\ merged_other = <<>>
    /\ final_entities = <<>>
    /\ MaskResultsIdle
    /\ ApiIdle
    /\ RunIdle

NextDocs == DetectorAnswers \/ Detect \/ MaskDetected

SpecDocs == InitDocs /\ [][NextDocs]_vars

\* the field names of the active fields of the guard type of the request
ActiveFieldNames == {ActiveFields[i].field_name : i \in 1..Len(ActiveFields)}

\* C24 (as claimed): every entity detect returns has as type the field_name of
\* an active field of the guard type, merged names and unified documents
\* included, so the allowed-types filter of process discards nothing and
\* generate_tokens receives every detected entity.
C24_TypesAreFieldNames ==
    /\ pc \in {"detected", "masked", "error"}
          => \A i \in 1..Len(final_entities) : final_entities[i].type \in ActiveFieldNames
    /\ pc = "masked" => cands = final_entities

-----------------------------------------------------------------------------
\* The end of detect as a function of the two lists it joins
\* (pii_detector_french.py:118-124): final_entities = regex_part +
\* _merge_entities(other_part), then _unify_equivalent_types

MaxUnify == 2

UnifySpans == {<<33, 43>>, <<0, 5>>}
UnifyTypes == {"id_card", "passport", "name"}

\* what the regex step, and the model steps, may have found in NameText
RegexPartPool ==
    {Ent(sp[1], sp[2], PySlice(NameText, sp[1], sp[2]), ty, "regex_db", RegexConfidence, TRUE) :
        sp \in UnifySpans, ty \in UnifyTypes}
OtherPartPool ==
    {Ent(sp[1], sp[2], PySlice(NameText, sp[1], sp[2]), ty, "presidio", 85, TRUE) :
        sp \in UnifySpans, ty \in UnifyTypes}

InitUnify ==
    /\ text = NameText
    /\ pc = "request"
    /\ guard_type = ""
    /\ presidio = FALSE
    /\ answers = {}
    /\ regex_entities = <<>>
    /\ ner_entities = <<>>
    /\ ner_calls = {}
    /\ other_part = <<>>
    /\ merged_other = <<>>
    /\ final_entities = <<>>
    /\ MaskResultsIdle
    /\ CfgIdle
    /\ ApiIdle
    /\ RunIdle

\* the regex step found one more entity
AddRegexPart ==
    /\ pc = "request"
    /\ Len(regex_entities) < MaxUnify
    /\ \E e \in RegexPartPool : regex_entities' = Append(regex_entities, e)
    /\ UNCHANGED <<guard_type, presidio, answers, ner_entities, ner_calls, other_part,
                   merged_other, final_entities>>
    /\ UNCHANGED <<maskVars, cfgVars, apiVars, runVars>>

\* a model step found one more entity
AddOtherPart ==
    /\ pc = "request"
    /\ Len(other_part) < MaxUnify
    /\ \E e \in OtherPartPool : other_part' = Append(other_part, e)
    /\ UNCHANGED <<guard_type, presidio, answers, regex_entities, ner_entities, ner_calls,
                   merged_other, final_entities>>
    /\ UNCHANGED <<maskVars, cfgVars, apiVars, runVars>>

\* merged_other = self._merge_entities(other_part);
\* final_entities = self._unify_equivalent_types(regex_part + merged_other)
Unify ==
    /\ pc = "request"
    /\ merged_other' = merge_entities(other_part)
    /\ final_entities' = unify_equivalent_types(regex_entities \o merge_entities(other_part))
    /\ pc' = "unified"
    /\ UNCHANGED <<guard_type, presidio, answers, regex_entities, ner_entities, ner_calls,
                   other_part>>
    /\ UNCHANGED <<text, cands, selected, masked_text, token_map, unmasked,
                   calls, prev_masked, prev_map, issued>>
    /\ UNCHANGED <<cfgVars, apiVars, runVars>>

NextUnify == AddRegexPart \/ AddOtherPart \/ Unify

SpecUnify == InitUnify /\ [][NextUnify]_vars

\* the list handed to _unify_equivalent_types, and its entities on one span
UnifyInput == regex_entities \o merged_other
OnSpan(entities, sp) == SelectSeq(entities, LAMBDA e : SpanOf(e) = sp)

\* two or more types of the group are present on the span
GroupFires(entities, sp) ==
    Cardinality({OnSpan(entities, sp)[i].type : i \in 1..Len(OnSpan(entities, sp))}
                    \cap IdentityDocumentMembers) >= 2

-----------------------------------------------------------------------------
\* Further claims on the detection pipeline (checked under SpecDetect)

NameTypes == {"name", "full_name", "firstname", "person"}
EmailTypes == {"email", "EMAIL", "email_address"}

Inside(a, b) == a.start >= b.start /\ a.end <= b.end

\* C26: in the list detect returns, no entity of type name, full_name,
\* firstname or person has its span contained in the span of an e-mail entity.
C26_NoNameInsideEmail ==
    pc = "detected" =>
        \A i, j \in 1..Len(final_entities) :
            (final_entities[i].type \in NameTypes /\ final_entities[j].type \in EmailTypes)
                => ~Inside(final_entities[i], final_entities[j])

\* a model reported a name inside the address, the entity reached the last
\* step of detect, and the list returned holds the address without it
C26_Witness ==
    /\ pc = "detected"
    /\ \E j \in 1..Len(final_entities) :
          /\ final_entities[j].type \in EmailTypes
          /\ \E i \in 1..Len(merged_other) :
                /\ merged_other[i].type \in NameTypes
                /\ Inside(merged_other[i], final_entities[j])
                /\ \A k \in 1..Len(final_entities) : final_entities[k] # merged_other[i]

-----------------------------------------------------------------------------
\* reload_patterns_cache on a store that holds a malformed expression
\* (dynamic_config_loader.py:21-53); the store is written only between reloads

\* a store whose first pattern by name does not compile: rows written through
\* DatabaseManager.create_regex_pattern are not compiled before the INSERT
StoreWithBrokenPattern == SeededPatterns \cup {PatternRow(4, "custom", BrokenPattern)}

InitReloadSeq ==
    /\ guard_types = {}
    /\ pii_fields = {}
    /\ regex_patterns \in {{}, SeededPatterns, StoreWithBrokenPattern}
    /\ compiled_cache \in {{}, {<<r.name, r.pattern>> : r \in SeededPatterns}}
    /\ cfg_ops = 0
    /\ last_call = NoCall
    /\ prev_call = NoCall
    /\ request = NoRequest
    /\ response = NoRequest
    /\ reload_pc = "idle"
    /\ reload_rows = <<>>
    /\ old_cache = {}
    /\ observed = {}
    /\ MaskIdle
    /\ DetIdle
    /\ RunIdle

\* seed_defaults while no reload is running
SeedBetweenReloads == reload_pc = "idle" /\ PostSeedDefaults

NextReloadSeq ==
    ReloadBegin \/ ReloadInsert \/ ReloadEnd \/ GetCompiledPattern \/ SeedBetweenReloads

SpecReloadSeq == InitReloadSeq /\ [][NextReloadSeq]_vars

\* the names and expressions of the active rows re.compile accepts
ActiveCompilable ==
    {<<r.name, r.pattern>> : r \in {x \in regex_patterns : x.is_active /\ x.pattern # BrokenPattern}}

\* C27: when reload_patterns_cache returns, the cache holds exactly the active
\* patterns of the store that compile: a malformed active pattern is left out,
\* the reload goes on after it and every other pattern is in the cache.
C27_ReloadResult ==
    [][(reload_pc = "filling" /\ reload_pc' = "idle") => compiled_cache' = ActiveCompilable]_vars

\* a reload of a non-empty cache has returned on a store with a malformed
\* active pattern: the three other patterns are in the cache, the malformed
\* one is not
C27_Witness ==
    /\ reload_pc = "idle"
    /\ old_cache # {}
    /\ \E r \in regex_patterns : r.is_active /\ r.pattern = BrokenPattern /\ r.name = "custom"
    /\ {c[1] : c \in compiled_cache} = {"cvv_3_4", "email", "french_phone"}
    /\ get_compiled_pattern(compiled_cache, "custom") = None

-----------------------------------------------------------------------------
\* seed_defaults next to the deleting routes (init_seed_defaults.py:172-198,
\* config_api.py:150-186, 273-291)

InitSeed ==
    /\ guard_types = {}
    /\ pii_fields = {}
    /\ regex_patterns \in {{}, SeededPatterns}
    /\ compiled_cache = load_patterns_cache(regex_patterns)
    /\ cfg_ops = 0
    /\ last_call = NoCall
    /\ prev_call = NoCall
    /\ request = NoRequest
    /\ response = NoRequest
    /\ reload_pc = "idle"
    /\ reload_rows = <<>>
    /\ old_cache = {}
    /\ observed = {}
    /\ MaskIdle
    /\ DetIdle
    /\ RunIdle

\* DELETE /guard-types/{guard_id}
ApiDeleteGuardType ==
    \E id \in {r.id : r \in guard_types} :
        LET r == delete_guard_type(guard_types, pii_fields, id)
        IN  /\ guard_types' = r.guard_types
            /\ pii_fields' = r.pii_fields
            /\ UNCHANGED <<regex_patterns, compiled_cache>>
            /\ ApiServed(Request("delete_guard_type", "", "", "", None, <<>>),
                         Response(200, id, <<>>, FALSE))

\* DELETE /pii-fields/{field_id}
ApiDeletePiiField ==
    \E id \in {r.id : r \in pii_fields} :
        LET r == delete_pii_field(pii_fields, id)
        IN  /\ pii_fields' = r.pii_fields
            /\ UNCHANGED <<guard_types, regex_patterns, compiled_cache>>
            /\ ApiServed(Request("delete_pii_field", "", "", "", None, <<>>),
                         Response(200, id, <<>>, FALSE))

NextSeed == PostSeedDefaults \/ PostGuardType \/ ApiDeleteGuardType \/ ApiDeletePiiField

SpecSeed == InitSeed /\ [][NextSeed]_vars

\* the step that serves a call of seed_defaults
SeedStep == cfg_ops' # cfg_ops /\ request'.op = "seed_defaults"

\* every default pattern, guard type and field has its row, as after a
\* successful call of seed_defaults
DefaultsPresent ==
    /\ \A i \in 1..Len(DEFAULT_PATTERNS) :
          \E r \in regex_patterns : r.name = DEFAULT_PATTERNS[i][1]
    /\ \A i \in 1..Len(DEFAULT_GUARDS) :
          /\ \E r \in guard_types : r.name = DEFAULT_GUARDS[i].name
          /\ \A j \in 1..Len(DEFAULT_GUARDS[i].fields) :
                RowsOfKey(DEFAULT_GUARDS[i].name, DEFAULT_GUARDS[i].fields[j].field_name) # {}

\* C28 (as claimed): seed_defaults returns success in whatever state of the
\* store it is called, and once the defaults have their rows a further call
\* adds no guard type, field or pattern row.
C28_SeedReinvocable ==
    [][SeedStep =>
          /\ response'.status = 200
          /\ DefaultsPresent => /\ guard_types' = guard_types
                                /\ pii_fields' = pii_fields
                                /\ regex_patterns' = regex_patterns]_vars

-----------------------------------------------------------------------------
\* Further claims on the configuration API (checked under SpecApi)

\* the step that serves a POST of a pattern whose expression compiles under a
\* name that has a row
PostedExistingName ==
    /\ cfg_ops' # cfg_ops
    /\ request'.op = "create_regex_pattern"
    /\ Compiles(request'.pattern)
    /\ \E r \in regex_patterns : r.name = request'.name

\* C29 (as claimed): create_regex_pattern called with a name that already
\* has a row returns the identifier of that row without error and leaves
\* exactly one row for the name.
C29_IdempotentPattern ==
    [][PostedExistingName =>
          /\ response'.status = 200
          /\ \E r \in regex_patterns : r.name = request'.name /\ r.id = response'.id
          /\ Cardinality({r \in regex_patterns' : r.name = request'.name}) = 1]_vars

-----------------------------------------------------------------------------
\* Further claims on the tokenization engine (checked under SpecMask)

\* score(a) >= score(b), as Python compares the tuples
ScoreAtLeast(a, b) == score(a) = score(b) \/ TupleLess(score(b), score(a))

\* the valid candidates generate_tokens left out
Dropped == {i \in 1..Len(cands) : IsValidEntity(cands[i]) /\ cands[i] \notin Range(selected)}

\* C30: every valid candidate generate_tokens did not select overlaps a
\* selected candidate whose score (source rank, confidence, span length) is
\* greater than or equal to its own.
C30_GreedyMaximal ==
    Masked =>
        \A i \in Dropped :
            \E j \in 1..Len(selected) :
                /\ overlaps(cands[i], selected[j].start, selected[j].end)
                /\ ScoreAtLeast(selected[j], cands[i])

\* a candidate was dropped for a selected one of strictly greater score, though
\* it came first in the list and starts first in the text
C30_Witness ==
    /\ Masked
    /\ \E i \in Dropped, j \in 1..Len(selected) :
          /\ overlaps(cands[i], selected[j].start, selected[j].end)
          /\ TupleLess(score(cands[i]), score(selected[j]))
          /\ cands[i].start < selected[j].start
          /\ cands[1] = cands[i]
====
